---- MODULE Spec2Model ----
(***************************************************************************)
(* ShutterSense backend: the FastAPI handlers of backend/main.py and the   *)
(* three operations behind them (metadata_extractor, settings_predictor,   *)
(* llm_advisor); and the training scripts of ml_training/scripts: the      *)
(* dataset utilities of preprocess.py, the training loop of train_model.py *)
(* and the conversion script convert_model.py.                             *)
(*                                                                         *)
(* Representation of Python values                                         *)
(*   str    a sequence of strings whose concatenation is the text.  A text *)
(*          the code inspects (prompt, LLM reply, user message) is split   *)
(*          into single characters; a literal the code only passes on is   *)
(*          one piece.                                                     *)
(*   dict   a function whose DOMAIN is the set of keys; current_settings,  *)
(*          which is only iterated, is the sequence of its items.          *)
(*   None   NoneSettings for current_settings, the string "None" for the   *)
(*          client and the session.                                        *)
(*   float  an exact rational [num, den] for avg_brightness, an integer    *)
(*          count of millionths for the ONNX outputs and the confidence.   *)
(***************************************************************************)
EXTENDS Integers, Sequences, FiniteSets, TLC

VARIABLES advisor, predictor, requests, fn_pc, fn_input, fn_result

vars == <<advisor, predictor, requests, fn_pc, fn_input, fn_result>>

----------------------------------------------------------------------------
(* Text helpers: str.lower, the `in` substring test, str.isdigit, int().   *)

UpperChars == <<"A", "B", "C", "D", "E", "F", "G", "H", "I", "J", "K", "L", "M",
                "N", "O", "P", "Q", "R", "S", "T", "U", "V", "W", "X", "Y", "Z">>

LowerChars == <<"a", "b", "c", "d", "e", "f", "g", "h", "i", "j", "k", "l", "m",
                "n", "o", "p", "q", "r", "s", "t", "u", "v", "w", "x", "y", "z">>

LowerChar(c) ==
    IF \E i \in 1..Len(UpperChars) : UpperChars[i] = c
    THEN LowerChars[CHOOSE i \in 1..Len(UpperChars) : UpperChars[i] = c]
    ELSE c

\* str.lower()
lower(text) == [i \in 1..Len(text) |-> LowerChar(text[i])]

\* sub in text
Contains(text, sub) ==
    \E i \in 0..(Len(text) - Len(sub)) : SubSeq(text, i + 1, i + Len(sub)) = sub

Digits == <<"0", "1", "2", "3", "4", "5", "6", "7", "8", "9">>

IsDigit(c) == \E d \in 1..Len(Digits) : Digits[d] = c

DigitValue(c) == (CHOOSE d \in 1..Len(Digits) : Digits[d] = c) - 1

\* word.isdigit(): non-empty and all characters are digits
isdigit(word) == Len(word) > 0 /\ \A i \in 1..Len(word) : IsDigit(word[i])

RECURSIVE int(_)
\* int(word) for a word of digits
int(word) ==
    IF Len(word) = 0 THEN 0
    ELSE 10 * int(SubSeq(word, 1, Len(word) - 1)) + DigitValue(word[Len(word)])

WhiteSpace == {" ", "\n", "\t"}

RECURSIVE split(_)
\* text.split(): the maximal runs of non-whitespace characters, in order
split(text) ==
    IF Len(text) = 0 THEN <<>>
    ELSE IF text[1] \in WhiteSpace THEN split(Tail(text))
    ELSE LET stop == IF \E i \in 1..Len(text) : text[i] \in WhiteSpace
                     THEN (CHOOSE i \in 1..Len(text) :
                              /\ text[i] \in WhiteSpace
                              /\ \A j \in 1..(i - 1) : text[j] \notin WhiteSpace) - 1
                     ELSE Len(text)
         IN <<SubSeq(text, 1, stop)>> \o split(SubSeq(text, stop + 1, Len(text)))

\* The longest prefix of text made of digits (the regex \d* at the start)
RECURSIVE DigitRun(_)
DigitRun(text) ==
    IF Len(text) > 0 /\ IsDigit(text[1])
    THEN <<text[1]>> \o DigitRun(Tail(text))
    ELSE <<>>

----------------------------------------------------------------------------
(* llm_advisor.py                                                          *)

NoneSettings == [isNone |-> TRUE, items |-> <<>>]

Dict(items) == [isNone |-> FALSE, items |-> items]

\* Python truthiness of Optional[Dict]: neither None nor empty
Truthy(current_settings) ==
    ~current_settings.isNone /\ Len(current_settings.items) > 0

PortraitWords == {<<"p", "o", "r", "t", "r", "a", "i", "t">>,
                  <<"p", "e", "r", "s", "o", "n">>,
                  <<"p", "e", "o", "p", "l", "e">>,
                  <<"f", "a", "c", "e">>}

LandscapeWords == {<<"l", "a", "n", "d", "s", "c", "a", "p", "e">>,
                   <<"s", "c", "e", "n", "e", "r", "y">>,
                   <<"m", "o", "u", "n", "t", "a", "i", "n">>,
                   <<"n", "a", "t", "u", "r", "e">>}

ActionWords == {<<"a", "c", "t", "i", "o", "n">>,
                <<"s", "p", "o", "r", "t">>,
                <<"f", "a", "s", "t">>,
                <<"m", "o", "v", "i", "n", "g">>,
                <<"r", "u", "n", "n", "i", "n", "g">>}

LowLightWords == {<<"d", "a", "r", "k">>,
                  <<"n", "i", "g", "h", "t">>,
                  <<"l", "o", "w", " ", "l", "i", "g", "h", "t">>,
                  <<"i", "n", "d", "o", "o", "r">>}

\* any(word in prompt_lower for word in words)
AnyWordIn(words, prompt_lower) == \E word \in words : Contains(prompt_lower, word)

PortraitSettings ==
    [iso |-> 400, aperture |-> <<"f/2.8">>, shutter_speed |-> <<"1/125s">>,
     explanation |-> <<"Portrait settings: Wide aperture (f/2.8) for shallow depth of field, moderate ISO and shutter speed">>,
     source |-> "rule-based"]

LandscapeSettings ==
    [iso |-> 100, aperture |-> <<"f/11">>, shutter_speed |-> <<"1/60s">>,
     explanation |-> <<"Landscape settings: Narrow aperture (f/11) for deep depth of field, low ISO for quality">>,
     source |-> "rule-based"]

ActionSettings ==
    [iso |-> 800, aperture |-> <<"f/4">>, shutter_speed |-> <<"1/1000s">>,
     explanation |-> <<"Action settings: Fast shutter (1/1000s) to freeze motion, moderate aperture and higher ISO">>,
     source |-> "rule-based"]

LowLightSettings ==
    [iso |-> 1600, aperture |-> <<"f/2.8">>, shutter_speed |-> <<"1/60s">>,
     explanation |-> <<"Low light settings: High ISO (1600), wide aperture (f/2.8) to gather more light">>,
     source |-> "rule-based"]

DefaultSettings ==
    [iso |-> 400, aperture |-> <<"f/5.6">>, shutter_speed |-> <<"1/125s">>,
     explanation |-> <<"General purpose settings: Balanced settings suitable for most situations">>,
     source |-> "rule-based"]

\* _rule_based_suggestions with the low light branch tested first
rule_based_suggestions_low_light_first(prompt, current_settings) ==
    LET prompt_lower == lower(prompt)
    IN  IF AnyWordIn(LowLightWords, prompt_lower) THEN LowLightSettings
        ELSE IF AnyWordIn(PortraitWords, prompt_lower) THEN PortraitSettings
        ELSE IF AnyWordIn(LandscapeWords, prompt_lower) THEN LandscapeSettings
        ELSE IF AnyWordIn(ActionWords, prompt_lower) THEN ActionSettings
        ELSE DefaultSettings

\* _rule_based_suggestions answering with the general purpose settings
\* whenever current settings are given
rule_based_suggestions_from_current(prompt, current_settings) ==
    LET prompt_lower == lower(prompt)
    IN  IF Truthy(current_settings) THEN DefaultSettings
        ELSE IF AnyWordIn(PortraitWords, prompt_lower) THEN PortraitSettings
        ELSE IF AnyWordIn(LandscapeWords, prompt_lower) THEN LandscapeSettings
        ELSE IF AnyWordIn(ActionWords, prompt_lower) THEN ActionSettings
        ELSE IF AnyWordIn(LowLightWords, prompt_lower) THEN LowLightSettings
        ELSE DefaultSettings

\* LLMAdvisor._rule_based_suggestions
rule_based_suggestions(prompt, current_settings) ==
    LET prompt_lower == lower(prompt)
    IN  IF AnyWordIn(PortraitWords, prompt_lower) THEN PortraitSettings
        ELSE IF AnyWordIn(LandscapeWords, prompt_lower) THEN LandscapeSettings
        ELSE IF AnyWordIn(ActionWords, prompt_lower) THEN ActionSettings
        ELSE IF AnyWordIn(LowLightWords, prompt_lower) THEN LowLightSettings
        ELSE DefaultSettings

----------------------------------------------------------------------------
(* Outcome of a Python call: a returned value or a raised exception.       *)

Return(v) == [raised |-> FALSE, value |-> v, error |-> <<>>]

Raise(message) == [raised |-> TRUE, value |-> <<>>, error |-> message]

----------------------------------------------------------------------------
(* LLMAdvisor.suggest and _parse_llm_response                              *)

IsoValues == {100, 200, 400, 800, 1600, 3200, 6400}

\* for word in text.split(): if word.isdigit() and int(word) in [...]: ...; break
FirstIsoWord(words) ==
    IF \E i \in 1..Len(words) : isdigit(words[i]) /\ int(words[i]) \in IsoValues
    THEN LET i == CHOOSE k \in 1..Len(words) :
                     /\ isdigit(words[k]) /\ int(words[k]) \in IsoValues
                     /\ \A j \in 1..(k - 1) :
                            ~(isdigit(words[j]) /\ int(words[j]) \in IsoValues)
         IN  <<int(words[i])>>
    ELSE <<>>

\* Positions at which `prefix` occurs followed by at least one digit
DigitMatches(text, prefix) ==
    {i \in 1..(Len(text) - Len(prefix)) :
        /\ SubSeq(text, i, i + Len(prefix) - 1) = prefix
        /\ IsDigit(text[i + Len(prefix)])}

Min(S) == CHOOSE x \in S : \A y \in S : x <= y

\* re.search(r'f/(\d+\.?\d*)', text).group(1), <<>> when there is no match
ApertureGroup(text) ==
    LET at == DigitMatches(text, <<"f", "/">>)
    IN  IF at = {} THEN <<>>
        ELSE LET rest == SubSeq(text, Min(at) + 2, Len(text))
                 whole == DigitRun(rest)
                 after == SubSeq(rest, Len(whole) + 1, Len(rest))
             IN  IF Len(after) > 0 /\ after[1] = "."
                 THEN whole \o <<".">> \o DigitRun(Tail(after))
                 ELSE whole

\* re.search(r'1/(\d+)', text).group(1), <<>> when there is no match
ShutterGroup(text) ==
    LET at == DigitMatches(text, <<"1", "/">>)
    IN  IF at = {} THEN <<>>
        ELSE DigitRun(SubSeq(text, Min(at) + 2, Len(text)))

\* LLMAdvisor._parse_llm_response
parse_llm_response(text) ==
    LET text_lower == lower(text)
        iso == IF Contains(text_lower, <<"i", "s", "o">>)
               THEN FirstIsoWord(split(text)) ELSE <<>>
        aperture == IF \/ Contains(text_lower, <<"f", "/">>)
                       \/ Contains(text_lower, <<"a", "p", "e", "r", "t", "u", "r", "e">>)
                    THEN ApertureGroup(text_lower) ELSE <<>>
        shutter == IF \/ Contains(text_lower, <<"s", "h", "u", "t", "t", "e", "r">>)
                      \/ Contains(text, <<"1", "/">>)
                   THEN ShutterGroup(text) ELSE <<>>
        keys == (IF iso # <<>> THEN {"iso"} ELSE {})
                \cup (IF aperture # <<>> THEN {"aperture"} ELSE {})
                \cup (IF shutter # <<>> THEN {"shutter_speed"} ELSE {})
    IN  [k \in keys |->
            CASE k = "iso" -> iso[1]
              [] k = "aperture" -> <<"f/">> \o aperture
              [] k = "shutter_speed" -> <<"1/">> \o shutter \o <<"s">>]

\* dict item assignment d[key] = value
SetItem(d, key, value) ==
    [k \in DOMAIN d \cup {key} |-> IF k = key THEN value ELSE d[k]]

\* LLMAdvisor._format_settings: ", ".join(f"{key}: {value}" ...)
RECURSIVE format_settings(_)
format_settings(items) ==
    IF Len(items) = 0 THEN <<>>
    ELSE items[1][1] \o <<":", " ">> \o items[1][2]
         \o (IF Len(items) > 1 THEN <<",", " ">> ELSE <<>>)
         \o format_settings(Tail(items))

UserRequestText == <<"U", "s", "e", "r", " ", "r", "e", "q", "u", "e", "s", "t", ":", " ">>

CurrentSettingsText ==
    <<"\n", "\n", "C", "u", "r", "r", "e", "n", "t", " ", "s", "e", "t",
      "t", "i", "n", "g", "s", ":", " ">>

SuggestOptimalText ==
    <<"\n", "\n", "S", "u", "g", "g", "e", "s", "t", " ", "o", "p", "t", "i", "m", "a", "l", " ",
      "c", "a", "m", "e", "r", "a", " ", "s", "e", "t", "t", "i", "n", "g", "s", ".">>

\* The user message sent to the chat completion API
user_message(prompt, current_settings) ==
    LET context == IF Truthy(current_settings)
                   THEN CurrentSettingsText
                        \o format_settings(current_settings.items)
                   ELSE <<>>
    IN  UserRequestText \o prompt \o context \o SuggestOptimalText

\* suggest_try with a reply without content read as the empty text
suggest_try_empty_for_none(prompt, current_settings, llm) ==
    IF llm.raises THEN Raise(<<"APIError">>)
    ELSE LET suggestion_text ==
                 IF llm.content_is_none THEN <<>>
                 ELSE IF llm.echo THEN user_message(prompt, current_settings)
                 ELSE llm.content
             parsed == parse_llm_response(suggestion_text)
         IN  Return(SetItem(SetItem(parsed, "explanation", suggestion_text),
                            "source", "llm"))

\* response.choices[0].message.content: a text of the model's own, or the
\* user message repeated
ReplyText(llm, message) == IF llm.echo THEN message ELSE llm.content

\* The try block of suggest with the settings that were not parsed filled in
\* from the general purpose settings
suggest_try_fills_defaults(prompt, current_settings, llm) ==
    IF llm.raises THEN Raise(<<"APIError">>)
    ELSE IF llm.content_is_none
         THEN Raise(<<"'NoneType' object has no attribute 'lower'">>)
    ELSE LET suggestion_text ==
                 ReplyText(llm, user_message(prompt, current_settings))
             parsed == parse_llm_response(suggestion_text)
             filled == [k \in {"iso", "aperture", "shutter_speed"} |->
                           IF k \in DOMAIN parsed THEN parsed[k]
                           ELSE DefaultSettings[k]]
         IN  Return(SetItem(SetItem(filled, "explanation", suggestion_text),
                            "source", "llm"))

\* The try block of suggest.  `llm` is what the OpenAI client does with the
\* request: it raises, or it answers with a message whose content is a text
\* or None.
suggest_try(prompt, current_settings, llm) ==
    IF llm.raises THEN Raise(<<"APIError">>)
    ELSE IF llm.content_is_none
         THEN Raise(<<"'NoneType' object has no attribute 'lower'">>)
    ELSE LET suggestion_text ==
                 ReplyText(llm, user_message(prompt, current_settings))
             parsed == parse_llm_response(suggestion_text)
         IN  Return(SetItem(SetItem(parsed, "explanation", suggestion_text),
                            "source", "llm"))

\* suggest without the except clause: an exception of the try block propagates
suggest_propagates(self, prompt, current_settings, llm) ==
    IF self.client = "None"
    THEN Return(rule_based_suggestions(prompt, current_settings))
    ELSE suggest_try(prompt, current_settings, llm)

\* LLMAdvisor.suggest
suggest(self, prompt, current_settings, llm) ==
    IF self.client = "None"
    THEN Return(rule_based_suggestions(prompt, current_settings))
    ELSE LET r == suggest_try(prompt, current_settings, llm)
         IN  IF r.raised
             THEN Return(rule_based_suggestions(prompt, current_settings))
             ELSE r

\* LLMAdvisor.__init__
LLMAdvisor_init(env_api_key) ==
    [api_key |-> env_api_key,
     client |-> IF env_api_key \notin {"None", ""} THEN "OpenAI" ELSE "None"]

----------------------------------------------------------------------------
(* Numbers: int() truncation and the "{:.1f}" format on exact rationals.   *)

Abs(n) == IF n < 0 THEN -n ELSE n

\* int(n / d) for d > 0: truncation towards zero
Trunc(n, d) == IF n >= 0 THEN n \div d ELSE -((-n) \div d)

\* round(n / d) for n >= 0, d > 0, ties to even
RoundHalfEven(n, d) ==
    LET q == n \div d
        r == n % d
    IN  IF 2 * r < d THEN q
        ELSE IF 2 * r > d THEN q + 1
        ELSE IF q % 2 = 0 THEN q ELSE q + 1

\* f"{n / d:.1f}" for d > 0
Fmt1(n, d) ==
    LET tenths == RoundHalfEven(Abs(n) * 10, d)
    IN  (IF n < 0 THEN <<"-">> ELSE <<>>)
        \o <<ToString(tenths \div 10), ".", ToString(tenths % 10)>>

RECURSIVE SumSeq(_)
SumSeq(xs) == IF Len(xs) = 0 THEN 0 ELSE xs[1] + SumSeq(Tail(xs))

----------------------------------------------------------------------------
(* Uploaded bytes, as Pillow sees them.  An image that cannot be decoded   *)
(* makes Image.open raise; a decodable one has a format, a mode, a size,   *)
(* pixels (one level per pixel in mode L, three in mode RGB) and EXIF      *)
(* tags.                                                                   *)

CannotIdentify == <<"cannot identify image file">>

\* Image.open(io.BytesIO(image_bytes))
ImageOpen(image_bytes) ==
    IF image_bytes.decodable THEN Return(image_bytes) ELSE Raise(CannotIdentify)

\* Pillow's RGB -> L conversion (ITU-R 601-2 luma, 16 bit fixed point)
Luma(px) == (px[1] * 19595 + px[2] * 38470 + px[3] * 7471 + 32768) \div 65536

\* image.convert('L') unless the mode is already L; the result as np.array
GrayArray(image) ==
    IF image.mode # "L"
    THEN [i \in 1..Len(image.pixels) |-> Luma(image.pixels[i])]
    ELSE [i \in 1..Len(image.pixels) |-> image.pixels[i][1]]

----------------------------------------------------------------------------
(* settings_predictor.py                                                   *)

RuleNote == <<"Rule-based prediction (ML model not available)">>

\* The threshold rules with inclusive upper limits (<= for <)
BrightnessRules_inclusive(total, count) ==
    IF total <= 85 * count
    THEN [iso |-> 1600, aperture |-> <<"f/2.8">>, shutter_speed |-> <<"1/60s">>]
    ELSE IF total <= 170 * count
    THEN [iso |-> 400, aperture |-> <<"f/5.6">>, shutter_speed |-> <<"1/125s">>]
    ELSE [iso |-> 100, aperture |-> <<"f/8.0">>, shutter_speed |-> <<"1/500s">>]

\* The threshold rules on avg_brightness = total / count
BrightnessRules(total, count) ==
    IF total < 85 * count
    THEN [iso |-> 1600, aperture |-> <<"f/2.8">>, shutter_speed |-> <<"1/60s">>]
    ELSE IF total < 170 * count
    THEN [iso |-> 400, aperture |-> <<"f/5.6">>, shutter_speed |-> <<"1/125s">>]
    ELSE [iso |-> 100, aperture |-> <<"f/8.0">>, shutter_speed |-> <<"1/500s">>]

\* _rule_based_prediction that answers the medium settings for bytes it
\* cannot open
rule_based_prediction_default(image_bytes) ==
    LET opened == ImageOpen(image_bytes)
        img_array == IF opened.raised THEN <<128>> ELSE GrayArray(opened.value)
        total == SumSeq(img_array)
        count == Len(img_array)
        rule == BrightnessRules(total, count)
    IN  Return([iso |-> rule.iso,
                aperture |-> rule.aperture,
                shutter_speed |-> rule.shutter_speed,
                avg_brightness |-> [num |-> total, den |-> count],
                note |-> RuleNote])

\* SettingsPredictor._rule_based_prediction
rule_based_prediction(image_bytes) ==
    LET opened == ImageOpen(image_bytes)
    IN  IF opened.raised THEN opened
        ELSE LET img_array == GrayArray(opened.value)
                 total == SumSeq(img_array)
                 count == Len(img_array)
                 rule == BrightnessRules(total, count)
             IN  Return([iso |-> rule.iso,
                         aperture |-> rule.aperture,
                         shutter_speed |-> rule.shutter_speed,
                         avg_brightness |-> [num |-> total, den |-> count],
                         note |-> RuleNote])

\* SettingsPredictor.preprocess_image: the (1, 3, 224, 224) float32 tensor
preprocess_image(image_bytes) ==
    LET opened == ImageOpen(image_bytes)
    IN  IF opened.raised THEN opened
        ELSE Return([shape |-> <<1, 3, 224, 224>>])

\* The unit of the ONNX outputs: one is a million millionths
Million == 10 ^ 6

\* The confidence 0.8 reported when the model has no fourth output
DefaultConfidence == 800000

\* parse_outputs that leaves a zero third output out of the dictionary
parse_outputs_skips_zero(out) ==
    IF Len(out) < 3 THEN Raise(<<"index 2 is out of bounds">>)
    ELSE IF out[3] = 0
    THEN Return([iso |-> Trunc(out[1] * 6400, Million),
                 aperture |-> <<"f/">> \o Fmt1(out[2] * 22, Million),
                 confidence |-> IF Len(out) > 3 THEN out[4] ELSE DefaultConfidence])
    ELSE Return(
        [iso |-> Trunc(out[1] * 6400, Million),
         aperture |-> <<"f/">> \o Fmt1(out[2] * 22, Million),
         shutter_speed |->
            <<"1/", ToString(IF out[3] > 0 THEN Trunc(Million, out[3] * 8000)
                             ELSE -Trunc(Million, -out[3] * 8000)), "s">>,
         confidence |-> IF Len(out) > 3 THEN out[4] ELSE DefaultConfidence])

\* The dictionary built from outputs[0][0]; the outputs are in millionths.
\* Indexing past the end raises IndexError, a zero third output makes the
\* division (or the int() of its infinite result) raise.
parse_outputs(out) ==
    IF Len(out) < 3 THEN Raise(<<"index 2 is out of bounds">>)
    ELSE IF out[3] = 0 THEN Raise(<<"cannot convert float infinity to integer">>)
    ELSE Return(
        [iso |-> Trunc(out[1] * 6400, Million),
         aperture |-> <<"f/">> \o Fmt1(out[2] * 22, Million),
         shutter_speed |->
            <<"1/", ToString(IF out[3] > 0 THEN Trunc(Million, out[3] * 8000)
                             ELSE -Trunc(Million, -out[3] * 8000)), "s">>,
         confidence |-> IF Len(out) > 3 THEN out[4] ELSE DefaultConfidence])

\* The try block of predict.  `onnx` is what session.run does with the
\* tensor: it raises, or it returns outputs[0][0].
predict_try(image_bytes, onnx) ==
    LET input_data == preprocess_image(image_bytes)
    IN  IF input_data.raised THEN input_data
        ELSE IF onnx.raises THEN Raise(<<"InvalidArgument">>)
        ELSE parse_outputs(onnx.outputs)

\* predict whose fallback after an exception reports a confidence of zero
predict_fallback_with_confidence(self, image_bytes, onnx) ==
    IF self.session = "None"
    THEN rule_based_prediction(image_bytes)
    ELSE LET r == predict_try(image_bytes, onnx)
             fallback == rule_based_prediction(image_bytes)
         IN  IF ~r.raised THEN r
             ELSE IF fallback.raised THEN fallback
             ELSE Return(SetItem(fallback.value, "confidence", 0))

\* SettingsPredictor.predict
predict(self, image_bytes, onnx) ==
    IF self.session = "None"
    THEN rule_based_prediction(image_bytes)
    ELSE LET r == predict_try(image_bytes, onnx)
         IN  IF r.raised THEN rule_based_prediction(image_bytes) ELSE r

DefaultModelPath == "app/../models/camera_settings_model.onnx"

\* SettingsPredictor.__init__
SettingsPredictor_init(has_onnx, model_exists) ==
    [model_path |-> DefaultModelPath,
     session |-> IF has_onnx /\ model_exists THEN "InferenceSession" ELSE "None"]

----------------------------------------------------------------------------
(* metadata_extractor.py                                                   *)
(*                                                                         *)
(* An EXIF value is an int, a tuple (num, den), a str or bytes; all are    *)
(* records of one shape so that dictionaries of them can be compared.      *)

IntV(n) == [kind |-> "int", num |-> n, den |-> 1, text |-> <<>>, decodes |-> TRUE]

TupleV(n, d) == [kind |-> "tuple", num |-> n, den |-> d, text |-> <<>>, decodes |-> TRUE]

StrV(t) == [kind |-> "str", num |-> 0, den |-> 1, text |-> t, decodes |-> TRUE]

BytesV(t, ok) == [kind |-> "bytes", num |-> 0, den |-> 1, text |-> t, decodes |-> ok]

\* str(value) / f"{value}"
Str(value) ==
    CASE value.kind = "int" -> <<ToString(value.num)>>
      [] value.kind = "tuple" ->
            <<"(", ToString(value.num), ", ", ToString(value.den), ")">>
      [] value.kind = "bytes" -> <<"b'">> \o value.text \o <<"'">>
      [] OTHER -> value.text

\* PIL.ExifTags.TAGS, the entries the extractor reads
TAGS == (271 :> "Make") @@ (272 :> "Model") @@ (33434 :> "ExposureTime")
        @@ (33437 :> "FNumber") @@ (34855 :> "ISOSpeedRatings")
        @@ (37386 :> "FocalLength") @@ (41987 :> "WhiteBalance")
        @@ (42036 :> "LensModel")

\* TAGS.get(tag_id, tag_id); an unknown id stays the key, written as JSON does
TagName(tag_id) == IF tag_id \in DOMAIN TAGS THEN TAGS[tag_id] ELSE ToString(tag_id)

\* value.decode() for bytes, str(value) when that fails; other values unchanged
Readable(value) ==
    IF value.kind = "bytes"
    THEN IF value.decodes THEN StrV(value.text) ELSE StrV(Str(value))
    ELSE value

\* exif_info: tag name -> readable value
ExifInfo(exif_data) ==
    [tag \in {TagName(id) : id \in DOMAIN exif_data} |->
        Readable(exif_data[CHOOSE id \in DOMAIN exif_data : TagName(id) = tag])]

ZeroDivision == <<"division by zero">>

\* f"{prefix}{v[0]/v[1]:.1f}{suffix}" for a tuple, f"{prefix}{v}{suffix}" otherwise
Ratio1(value, prefix, suffix) ==
    IF value.kind = "tuple"
    THEN IF value.den = 0 THEN Raise(ZeroDivision)
         ELSE Return(StrV(prefix \o Fmt1(value.num, value.den) \o suffix))
    ELSE Return(StrV(prefix \o Str(value) \o suffix))

\* f"{v[0]}/{v[1]}s" for a tuple, f"{v}s" otherwise
Exposure(value) ==
    IF value.kind = "tuple"
    THEN StrV(<<ToString(value.num), "/", ToString(value.den), "s">>)
    ELSE StrV(Str(value) \o <<"s">>)

CopiedTags == [Make |-> "camera_make", Model |-> "camera_model",
               LensModel |-> "lens_model", WhiteBalance |-> "white_balance",
               ISOSpeedRatings |-> "iso"]

\* The camera_settings dictionary, or the exception its construction raises
CameraSettings(exif_info) ==
    LET has(tag) == tag \in DOMAIN exif_info
        aperture == IF has("FNumber")
                    THEN Ratio1(exif_info["FNumber"], <<"f/">>, <<>>)
                    ELSE Return(StrV(<<>>))
        focal == IF has("FocalLength")
                 THEN Ratio1(exif_info["FocalLength"], <<>>, <<"mm">>)
                 ELSE Return(StrV(<<>>))
        keys == {CopiedTags[t] : t \in DOMAIN CopiedTags \cap DOMAIN exif_info}
                \cup (IF has("FNumber") THEN {"aperture"} ELSE {})
                \cup (IF has("ExposureTime") THEN {"shutter_speed"} ELSE {})
                \cup (IF has("FocalLength") THEN {"focal_length"} ELSE {})
    IN  IF aperture.raised THEN aperture
        ELSE IF focal.raised THEN focal
        ELSE Return([k \in keys |->
                CASE k = "aperture" -> aperture.value
                  [] k = "shutter_speed" -> Exposure(exif_info["ExposureTime"])
                  [] k = "focal_length" -> focal.value
                  [] OTHER -> exif_info[CHOOSE t \in DOMAIN CopiedTags :
                                            CopiedTags[t] = k]])

\* The try block of extract_metadata
extract_try(image_bytes) ==
    LET opened == ImageOpen(image_bytes)
    IN  IF opened.raised THEN opened
        ELSE LET image == opened.value
                 metadata == [format |-> image.format,
                              mode |-> image.mode,
                              size |-> [width |-> image.width,
                                        height |-> image.height]]
                 exif_data == image.exif
             IN  IF DOMAIN exif_data = {} THEN Return(metadata)
                 ELSE LET exif_info == ExifInfo(exif_data)
                          camera_settings == CameraSettings(exif_info)
                      IN  IF camera_settings.raised THEN camera_settings
                          ELSE Return(SetItem(SetItem(metadata, "exif", exif_info),
                                              "camera_settings",
                                              camera_settings.value))

\* extract_metadata: any exception is re-raised with the prefix
extract_metadata(image_bytes) ==
    LET r == extract_try(image_bytes)
    IN  IF r.raised THEN Raise(<<"Failed to extract metadata: ">> \o r.error)
        ELSE r

----------------------------------------------------------------------------
(* main.py: the HTTP handlers.  A handler returns a dictionary (HTTP 200)  *)
(* or raises HTTPException(500, detail=str(e)).                            *)

Ok200(body) == [status |-> 200, body |-> body]

HTTPException(status_code, detail) ==
    [status |-> status_code, body |-> [detail |-> detail]]

\* GET /
root ==
    Ok200([message |-> <<"ShutterSense", " ", "API">>,
           version |-> <<"1.0.0">>,
           endpoints |-> [metadata |-> <<"Extract EXIF metadata from photos">>,
                          predict |-> <<"Predict optimal camera settings">>,
                          suggest |-> <<"Get LLM-based parameter suggestions">>]])

\* A health check that reports whether the ONNX session is loaded
health_check_session ==
    Ok200([status |-> IF predictor.session = "None" THEN "degraded" ELSE "healthy"])

\* GET /health
health_check == Ok200([status |-> "healthy"])

\* POST /metadata, after the upload has been read
get_metadata(contents) ==
    LET r == extract_metadata(contents)
    IN  IF r.raised THEN HTTPException(500, r.error)
        ELSE Ok200([success |-> TRUE, metadata |-> r.value])

\* POST /predict, after the upload has been read
predict_camera_settings(self, contents, onnx) ==
    LET r == predict(self, contents, onnx)
    IN  IF r.raised THEN HTTPException(500, r.error)
        ELSE Ok200([success |-> TRUE, predictions |-> r.value])

\* POST /suggest
suggest_camera_parameters(self, prompt, current_settings, llm) ==
    LET r == suggest(self, prompt, current_settings, llm)
    IN  IF r.raised THEN HTTPException(500, r.error)
        ELSE Ok200([success |-> TRUE, suggestions |-> r.value])

----------------------------------------------------------------------------
(* The inputs of the server model.                                         *)

MkImage(format, mode, pixels, exif) ==
    [decodable |-> TRUE, format |-> format, mode |-> mode,
     width |-> Len(pixels), height |-> 1, pixels |-> pixels, exif |-> exif]

\* Bytes that are no image
NotAnImage ==
    [decodable |-> FALSE, format |-> "None", mode |-> "None",
     width |-> 0, height |-> 0, pixels |-> <<>>, exif |-> <<>>]

Red == <<255, 0, 0>>

\* test_backend.create_test_image: a red RGB JPEG without EXIF
RedJpeg == MkImage("JPEG", "RGB", <<Red, Red>>, <<>>)

DimPng == MkImage("PNG", "L", <<<<84>>, <<85>>>>, <<>>)

ExifComplete ==
    (34855 :> IntV(100)) @@ (33437 :> TupleV(28, 10)) @@ (33434 :> TupleV(1, 125))
    @@ (37386 :> TupleV(50, 1)) @@ (271 :> StrV(<<"Canon">>))
    @@ (272 :> BytesV(<<"EOS">>, TRUE)) @@ (41987 :> IntV(0))

ExifScalar ==
    (33437 :> StrV(<<"2.8">>)) @@ (33434 :> StrV(<<"0.008">>))
    @@ (42036 :> StrV(<<"EF50mm">>)) @@ (65000 :> BytesV(<<"\\xff">>, FALSE))

ExifZeroFNumber == (34855 :> IntV(200)) @@ (33437 :> TupleV(28, 0))

ExifZeroFocal == (37386 :> TupleV(50, 0))

White == <<255, 255, 255>>

ServerImages ==
    {NotAnImage, RedJpeg, DimPng,
     MkImage("JPEG", "RGB", <<White>>, ExifComplete),
     MkImage("TIFF", "L", <<<<170>>>>, ExifScalar),
     MkImage("JPEG", "RGB", <<Red>>, ExifZeroFNumber),
     MkImage("JPEG", "L", <<<<10>>>>, ExifZeroFocal)}

PortraitPhotography == <<"p", "o", "r", "t", "r", "a", "i", "t", " ", "p", "h", "o", "t", "o", "g", "r", "a", "p", "h", "y">>

LowLightPortrait == <<"I", " ", "w", "a", "n", "t", " ", "t", "o", " ", "t", "a", "k", "e", " ", "p", "o", "r", "t", "r", "a", "i", "t", " ", "p", "h", "o", "t", "o", "s", " ", "i", "n", " ", "l", "o", "w", " ", "l", "i", "g", "h", "t">>

Sunset == <<"s", "u", "n", "s", "e", "t">>

\* The prompts of test_backend.py and test_api.py, one that matches no
\* keyword, and the empty prompt
ServerPrompts == {PortraitPhotography, LowLightPortrait, Sunset, <<>>}

ServerSettings ==
    {NoneSettings, Dict(<<>>),
     Dict(<<<<<<"i", "s", "o">>, <<"4", "0", "0">>>>,
            <<<<"a", "p", "e", "r", "t", "u", "r", "e">>,
              <<"f", "/", "5", ".", "6">>>>>>)}

Reply(text) ==
    [raises |-> FALSE, content_is_none |-> FALSE, echo |-> FALSE, content |-> text]

\* What the chat completion call can do: raise, answer without content,
\* repeat the user message, or answer with a text of its own
LLMOutcomes ==
    {[raises |-> TRUE, content_is_none |-> FALSE, echo |-> FALSE, content |-> <<>>],
     [raises |-> FALSE, content_is_none |-> TRUE, echo |-> FALSE, content |-> <<>>],
     [raises |-> FALSE, content_is_none |-> FALSE, echo |-> TRUE, content |-> <<>>],
     Reply(<<"I", "S", "O", " ", "4", "0", "0", ",", " ", "f", "/", "2", ".", "8", " ", "1", "/", "1", "2", "5", "s">>),
     Reply(<<"A", "p", "e", "r", "t", "u", "r", "e", " ", "F", "/", "1", "1", ".", " ", "I", "S", "O", " ", "1", "0", "0">>),
     Reply(<<"U", "s", "e", " ", "a", " ", "t", "r", "i", "p", "o", "d", ".">>)}

\* No call is made
NoCall ==
    [raises |-> FALSE, content_is_none |-> TRUE, echo |-> FALSE, content |-> <<>>]

\* The chat completion calls suggest can make: none without a client
LLMCalls(self) == IF self.client = "None" THEN {NoCall} ELSE LLMOutcomes

Outputs(out) == [raises |-> FALSE, outputs |-> out]

\* What session.run can do: raise, or return outputs[0][0] (in millionths)
OnnxOutcomes ==
    {[raises |-> TRUE, outputs |-> <<>>],
     Outputs(<<62500, 127273, 125, 900000>>),
     Outputs(<<250000, 254545, 1000>>),
     Outputs(<<250000, 254545, 0, 900000>>),
     Outputs(<<250000, 254545>>)}

NoRun == [raises |-> FALSE, outputs |-> <<>>]

\* The session.run calls predict can make: none without a session, none
\* when preprocessing has raised
OnnxRuns(self, image_bytes) ==
    IF self.session = "None" \/ preprocess_image(image_bytes).raised
    THEN {NoRun} ELSE OnnxOutcomes

\* The values of the environment variable OPENAI_API_KEY at import time
ApiKeys == {"None", "", "sk-test"}

Advisors == {LLMAdvisor_init(key) : key \in ApiKeys}

Clients == {"c1", "c2"}

----------------------------------------------------------------------------
(* The server: the two module-level objects built at import time and, per  *)
(* client, the request in flight and the last response.  The handlers of   *)
(* /metadata and /predict are coroutines that suspend once, at             *)
(* `await file.read()`; the others run without suspending.                 *)

NoResponse == [status |-> 0, body |-> <<>>]

Idle ==
    [pc |-> "idle", endpoint |-> "none", file |-> NotAnImage, prompt |-> <<>>,
     current_settings |-> NoneSettings, response |-> NoResponse]

NotApplied == <<>>

ServerInit ==
    /\ advisor \in Advisors
    /\ predictor \in {SettingsPredictor_init(has_onnx, model_exists) :
                         has_onnx \in BOOLEAN, model_exists \in BOOLEAN}
    /\ requests = [c \in Clients |-> Idle]

Init ==
    /\ ServerInit
    /\ fn_pc = "unused"
    /\ fn_input = NotApplied
    /\ fn_result = NotApplied

\* A client sends its next request when none of its requests is in flight
CanSend(c) == requests[c].pc \in {"idle", "done"}

Respond(c, endpoint, file, prompt, current_settings, response) ==
    requests' = [requests EXCEPT ![c] =
                    [pc |-> "done", endpoint |-> endpoint, file |-> file,
                     prompt |-> prompt, current_settings |-> current_settings,
                     response |-> response]]

Suspend(c, endpoint, file) ==
    requests' = [requests EXCEPT ![c] =
                    [pc |-> "read", endpoint |-> endpoint, file |-> file,
                     prompt |-> <<>>, current_settings |-> NoneSettings,
                     response |-> NoResponse]]

GetRoot(c) ==
    /\ CanSend(c)
    /\ Respond(c, "/", NotAnImage, <<>>, NoneSettings, root)
    /\ UNCHANGED <<advisor, predictor, fn_pc, fn_input, fn_result>>

GetHealth(c) ==
    /\ CanSend(c)
    /\ Respond(c, "/health", NotAnImage, <<>>, NoneSettings, health_check)
    /\ UNCHANGED <<advisor, predictor, fn_pc, fn_input, fn_result>>

\* POST /metadata up to `await file.read()`
PostMetadata(c) ==
    /\ CanSend(c)
    /\ \E file \in ServerImages : Suspend(c, "/metadata", file)
    /\ UNCHANGED <<advisor, predictor, fn_pc, fn_input, fn_result>>

\* POST /metadata from the resumption to the response
MetadataResume(c) ==
    /\ requests[c].pc = "read"
    /\ requests[c].endpoint = "/metadata"
    /\ LET contents == requests[c].file
       IN  Respond(c, "/metadata", contents, <<>>, NoneSettings,
                   get_metadata(contents))
    /\ UNCHANGED <<advisor, predictor, fn_pc, fn_input, fn_result>>

\* POST /predict up to `await file.read()`
PostPredict(c) ==
    /\ CanSend(c)
    /\ \E file \in ServerImages : Suspend(c, "/predict", file)
    /\ UNCHANGED <<advisor, predictor, fn_pc, fn_input, fn_result>>

\* POST /predict from the resumption to the response
PredictResume(c) ==
    /\ requests[c].pc = "read"
    /\ requests[c].endpoint = "/predict"
    /\ \E onnx \in OnnxRuns(predictor, requests[c].file) :
          LET contents == requests[c].file
          IN  Respond(c, "/predict", contents, <<>>, NoneSettings,
                      predict_camera_settings(predictor, contents, onnx))
    /\ UNCHANGED <<advisor, predictor, fn_pc, fn_input, fn_result>>

\* suggest_camera_parameters on every input of the server model, tabulated
\* so that the reply is parsed once per input
SuggestResponse ==
    [self \in Advisors, prompt \in ServerPrompts,
     current_settings \in ServerSettings, llm \in LLMOutcomes \cup {NoCall} |->
        suggest_camera_parameters(self, prompt, current_settings, llm)]

\* POST /suggest that drops the client after a failed LLM call
PostSuggest_drops_client(c) ==
    /\ CanSend(c)
    /\ \E prompt \in ServerPrompts, current_settings \in ServerSettings,
          llm \in LLMCalls(advisor) :
          /\ Respond(c, "/suggest", NotAnImage, prompt, current_settings,
                     SuggestResponse[advisor, prompt, current_settings, llm])
          /\ advisor' = IF advisor.client # "None" /\ llm.raises
                        THEN [advisor EXCEPT !.client = "None"]
                        ELSE advisor
    /\ UNCHANGED <<predictor, fn_pc, fn_input, fn_result>>

\* POST /suggest
PostSuggest(c) ==
    /\ CanSend(c)
    /\ \E prompt \in ServerPrompts, current_settings \in ServerSettings,
          llm \in LLMCalls(advisor) :
          Respond(c, "/suggest", NotAnImage, prompt, current_settings,
                  SuggestResponse[advisor, prompt, current_settings, llm])
    /\ UNCHANGED <<advisor, predictor, fn_pc, fn_input, fn_result>>

Next ==
    \E c \in Clients :
        \/ GetRoot(c)
        \/ GetHealth(c)
        \/ PostMetadata(c)
        \/ MetadataResume(c)
        \/ PostPredict(c)
        \/ PredictResume(c)
        \/ PostSuggest(c)

Spec == Init /\ [][Next]_vars

----------------------------------------------------------------------------
(* The brightness heuristic on its own: _rule_based_prediction applied to  *)
(* one image.                                                              *)

MaxPixels == 2

GrayLevels == {0, 84, 85, 86, 169, 170, 171, 255}

Colours == {<<0, 0, 0>>, Red, <<0, 255, 0>>, <<128, 128, 128>>, White}

RECURSIVE SeqsUpTo(_, _)
\* The sequences over S of length 1..n
SeqsUpTo(S, n) ==
    IF n = 0 THEN {}
    ELSE LET shorter == SeqsUpTo(S, n - 1)
         IN  {<<x>> : x \in S} \cup shorter
             \cup {Append(xs, x) : xs \in {ys \in shorter : Len(ys) = n - 1}, x \in S}

HeuristicImages ==
    {NotAnImage}
    \cup {MkImage("PNG", "L", pixels, <<>>) :
             pixels \in SeqsUpTo({<<g>> : g \in GrayLevels}, MaxPixels)}
    \cup {MkImage("JPEG", "RGB", <<colour>>, <<>>) : colour \in Colours}

FnIdle ==
    /\ advisor = LLMAdvisor_init("None")
    /\ predictor = SettingsPredictor_init(FALSE, FALSE)
    /\ requests = [c \in Clients |-> Idle]
    /\ fn_pc = "input"
    /\ fn_result = NotApplied

HeuristicInit ==
    /\ FnIdle
    /\ fn_input \in HeuristicImages

ApplyRuleBasedPrediction ==
    /\ fn_pc = "input"
    /\ fn_pc' = "applied"
    /\ fn_result' = rule_based_prediction(fn_input)
    /\ UNCHANGED <<advisor, predictor, requests, fn_input>>

HeuristicNext == ApplyRuleBasedPrediction

SpecHeuristic == HeuristicInit /\ [][HeuristicNext]_vars

----------------------------------------------------------------------------
(* The keyword advisor on its own: _rule_based_suggestions applied to one  *)
(* prompt and one current_settings.                                        *)

MaxFragments == 2

PromptPieces ==
    {<<"P", "o", "r", "t", "r", "a", "i", "t", " ">>, <<"a", " ", "F", "A", "C", "E">>,
     <<"l", "a", "n", "d", "s", "c", "a", "p", "e">>, <<"N", "a", "t", "u", "r", "e", " ">>,
     <<"b", "r", "e", "a", "k", "f", "a", "s", "t">>, <<"n", "i", "g", "h", "t">>,
     <<"l", "o", "w", " ">>, <<"l", "i", "g", "h", "t">>,
     <<"s", "u", "n", "s", "e", "t">>, <<"p", "e", "r", "s", "o", "n", "a", "l">>}

RECURSIVE Concat(_)
Concat(pieces) ==
    IF Len(pieces) = 0 THEN <<>> ELSE pieces[1] \o Concat(Tail(pieces))

AdvisorPrompts ==
    {<<>>, LowLightPortrait, PortraitPhotography}
    \cup {Concat(pieces) : pieces \in SeqsUpTo(PromptPieces, MaxFragments)}

AdvisorInit ==
    /\ FnIdle
    /\ fn_input \in [prompt : AdvisorPrompts, current_settings : ServerSettings]

ApplyRuleBasedSuggestions ==
    /\ fn_pc = "input"
    /\ fn_pc' = "applied"
    /\ fn_result' = rule_based_suggestions(fn_input.prompt,
                                           fn_input.current_settings)
    /\ UNCHANGED <<advisor, predictor, requests, fn_input>>

AdvisorNext == ApplyRuleBasedSuggestions

SpecAdvisor == AdvisorInit /\ [][AdvisorNext]_vars

----------------------------------------------------------------------------
(* LLMAdvisor.suggest on its own: one advisor, one prompt, one             *)
(* current_settings and one behaviour of the chat completion call.         *)

SuggestInit ==
    /\ FnIdle
    /\ fn_input \in [self : Advisors, prompt : ServerPrompts \cup PromptPieces,
                     current_settings : ServerSettings, llm : LLMOutcomes]

ApplySuggest ==
    /\ fn_pc = "input"
    /\ fn_pc' = "applied"
    /\ fn_result' = suggest(fn_input.self, fn_input.prompt,
                            fn_input.current_settings, fn_input.llm)
    /\ UNCHANGED <<advisor, predictor, requests, fn_input>>

SuggestNext == ApplySuggest

SpecSuggest == SuggestInit /\ [][SuggestNext]_vars

----------------------------------------------------------------------------
(* SettingsPredictor.predict on its own: one predictor, one upload and one *)
(* behaviour of session.run.                                               *)

Predictors ==
    {SettingsPredictor_init(has_onnx, model_exists) :
        has_onnx \in BOOLEAN, model_exists \in BOOLEAN}

PredictInit ==
    /\ FnIdle
    /\ fn_input \in [self : Predictors, image_bytes : HeuristicImages \cup ServerImages,
                     onnx : OnnxOutcomes]

ApplyPredict ==
    /\ fn_pc = "input"
    /\ fn_pc' = "applied"
    /\ fn_result' = predict(fn_input.self, fn_input.image_bytes, fn_input.onnx)
    /\ UNCHANGED <<advisor, predictor, requests, fn_input>>

PredictNext == ApplyPredict

SpecPredict == PredictInit /\ [][PredictNext]_vars

----------------------------------------------------------------------------
(* Claims                                                                  *)

\* Two outcomes of a call are the same: both raise the same exception or
\* both return the same value
SameOutcome(a, b) ==
    /\ a.raised = b.raised
    /\ a.raised => a.error = b.error
    /\ ~a.raised => a.value = b.value

\* The chat completion call, or the parsing of its reply, raises
LLMFails(llm) == llm.raises \/ llm.content_is_none

\* C1: suggest never raises for a string prompt; without a client, or when
\* the LLM call or the parsing of its reply raises, it returns the result of
\* _rule_based_suggestions(prompt, current_settings), whose source is
\* "rule-based".
C1_SuggestFallsBack ==
    fn_pc = "applied" =>
        /\ ~fn_result.raised
        /\ (fn_input.self.client = "None" \/ LLMFails(fn_input.llm)) =>
              /\ fn_result.value = rule_based_suggestions(fn_input.prompt,
                                                          fn_input.current_settings)
              /\ fn_result.value.source = "rule-based"

\* A client is configured, the reply has no content, and suggest has returned
C1_Witness ==
    /\ fn_pc = "applied"
    /\ fn_input.self.client = "OpenAI"
    /\ fn_input.llm.content_is_none
    /\ ~fn_result.raised
    /\ fn_result.value.source = "rule-based"

\* session.run is reached and it, or the parsing of its outputs, raises
InferenceFails(image_bytes, onnx) ==
    \/ preprocess_image(image_bytes).raised
    \/ onnx.raises
    \/ parse_outputs(onnx.outputs).raised

\* C2: without an ONNX session, or when preprocessing or inference raises,
\* predict yields exactly what _rule_based_prediction(image_bytes) yields; a
\* returned value has the keys note and avg_brightness and no confidence.
C2_PredictFallsBack ==
    (/\ fn_pc = "applied"
     /\ \/ fn_input.self.session = "None"
        \/ InferenceFails(fn_input.image_bytes, fn_input.onnx)) =>
        /\ SameOutcome(fn_result, rule_based_prediction(fn_input.image_bytes))
        /\ ~fn_result.raised =>
              /\ {"note", "avg_brightness"} \subseteq DOMAIN fn_result.value
              /\ "confidence" \notin DOMAIN fn_result.value

\* A session is loaded, the image decodes, session.run raises, and predict
\* has returned the heuristic's result
C2_Witness ==
    /\ fn_pc = "applied"
    /\ fn_input.self.session = "InferenceSession"
    /\ fn_input.image_bytes.decodable
    /\ fn_input.onnx.raises
    /\ ~fn_result.raised
    /\ "note" \in DOMAIN fn_result.value

Done(c, endpoint) == requests[c].pc = "done" /\ requests[c].endpoint = endpoint

\* C3: POST /suggest answers every request with a string prompt, with or
\* without current_settings, with HTTP 200 and a body in which success is
\* true and suggestions is present, with or without a client and whether or
\* not the LLM call fails.
C3_SuggestAlways200 ==
    \A c \in Clients :
        Done(c, "/suggest") =>
            /\ requests[c].response.status = 200
            /\ requests[c].response.body.success = TRUE
            /\ "suggestions" \in DOMAIN requests[c].response.body

\* With a client configured, one request without current_settings was
\* answered from the LLM and another, with current_settings, by the rules
C3_Witness ==
    /\ advisor.client = "OpenAI"
    /\ Done("c1", "/suggest") /\ Done("c2", "/suggest")
    /\ requests["c1"].current_settings.isNone
    /\ requests["c1"].response.body.suggestions.source = "llm"
    /\ Truthy(requests["c2"].current_settings)
    /\ requests["c2"].response.body.suggestions.source = "rule-based"

\* C4: POST /metadata with a decodable image answers HTTP 200 with success
\* true and a metadata object that contains format, mode and size (width,
\* height); when the image carries no EXIF data, metadata has neither an
\* exif nor a camera_settings key.
C4_MetadataAlways200 ==
    \A c \in Clients :
        (Done(c, "/metadata") /\ requests[c].file.decodable) =>
            /\ requests[c].response.status = 200
            /\ requests[c].response.body.success = TRUE
            /\ {"format", "mode", "size"}
                  \subseteq DOMAIN requests[c].response.body.metadata
            /\ DOMAIN requests[c].response.body.metadata.size = {"width", "height"}
            /\ DOMAIN requests[c].file.exif = {} =>
                  DOMAIN requests[c].response.body.metadata
                      \cap {"exif", "camera_settings"} = {}

\* C5: POST /predict with a decodable image answers HTTP 200 with success
\* true and predictions containing iso, aperture and shutter_speed, on the
\* ONNX path and on the rule-based path.
C5_PredictDecodable200 ==
    \A c \in Clients :
        (Done(c, "/predict") /\ requests[c].file.decodable) =>
            /\ requests[c].response.status = 200
            /\ requests[c].response.body.success = TRUE
            /\ {"iso", "aperture", "shutter_speed"}
                  \subseteq DOMAIN requests[c].response.body.predictions

\* With a session loaded, one decodable upload was answered by the model and
\* another by the heuristic
C5_Witness ==
    /\ predictor.session = "InferenceSession"
    /\ Done("c1", "/predict") /\ Done("c2", "/predict")
    /\ requests["c1"].file.decodable /\ requests["c2"].file.decodable
    /\ "confidence" \in DOMAIN requests["c1"].response.body.predictions
    /\ "note" \in DOMAIN requests["c2"].response.body.predictions

\* C6: when the upload cannot be decoded, POST /metadata and POST /predict
\* answer HTTP 500 with a detail and no success; the detail of /metadata
\* starts with "Failed to extract metadata: ".
C6_Undecodable500 ==
    \A c \in Clients :
        (/\ requests[c].pc = "done"
         /\ requests[c].endpoint \in {"/metadata", "/predict"}
         /\ ~requests[c].file.decodable) =>
            /\ requests[c].response.status = 500
            /\ DOMAIN requests[c].response.body = {"detail"}
            /\ requests[c].endpoint = "/metadata" =>
                  /\ Len(requests[c].response.body.detail) > 0
                  /\ requests[c].response.body.detail[1]
                        = "Failed to extract metadata: "

\* With a session loaded, undecodable bytes were refused by /metadata and by
\* /predict
C6_Witness ==
    /\ predictor.session = "InferenceSession"
    /\ Done("c1", "/metadata") /\ ~requests["c1"].file.decodable
    /\ Done("c2", "/predict") /\ ~requests["c2"].file.decodable
    /\ requests["c1"].response.status = 500
    /\ requests["c2"].response.status = 500

\* C7: GET / and GET /health answer HTTP 200 with a fixed body after any
\* earlier requests: the message of / contains "ShutterSense" and the status
\* of /health is "healthy".
C7_RootAndHealthFixed ==
    \A c \in Clients :
        /\ Done(c, "/") =>
              /\ requests[c].response.status = 200
              /\ \E i \in 1..Len(requests[c].response.body.message) :
                    requests[c].response.body.message[i] = "ShutterSense"
        /\ Done(c, "/health") =>
              /\ requests[c].response.status = 200
              /\ requests[c].response.body.status = "healthy"

\* Without a session, /health answered one client while the other holds a
\* 500 response
C7_Witness ==
    /\ predictor.session = "None"
    /\ Done("c1", "/health")
    /\ requests["c1"].response.body.status = "healthy"
    /\ requests["c2"].pc = "done"
    /\ requests["c2"].response.status = 500

\* C8: no handler modifies _advisor or _predictor, they keep the values set
\* at import time, and the path a request takes is the one those values
\* select: an LLM answer needs a client, a model answer needs a session.
C8_NoStateBetweenRequests ==
    /\ [][advisor' = advisor /\ predictor' = predictor]_vars
    /\ [](/\ advisor \in Advisors
          /\ predictor \in Predictors
          /\ \A c \in Clients :
                /\ (Done(c, "/suggest") /\ advisor.client = "None") =>
                      requests[c].response.body.suggestions.source = "rule-based"
                /\ (Done(c, "/predict") /\ predictor.session = "None"
                    /\ requests[c].response.status = 200) =>
                      "note" \in DOMAIN requests[c].response.body.predictions)

\* A client is configured, an LLM call has failed for one client and the
\* other client's request is suspended at file.read()
C8_Witness ==
    /\ advisor.client = "OpenAI"
    /\ Done("c1", "/suggest")
    /\ requests["c1"].response.body.suggestions.source = "rule-based"
    /\ requests["c2"].pc = "read"

\* The mean grayscale brightness of a decodable image, as total / count
Brightness(image) ==
    [num |-> SumSeq(GrayArray(image)), den |-> Len(GrayArray(image))]

\* a < n and a >= n for a rational a and an integer n
Below(a, n) == a.num < n * a.den

AtLeast(a, n) == a.num >= n * a.den

Triple(settings) == <<settings.iso, settings.aperture, settings.shutter_speed>>

\* C9: the heuristic maps the mean brightness b to settings by thresholds:
\* b < 85 gives iso 1600, f/2.8, 1/60s; 85 <= b < 170 gives iso 400, f/5.6,
\* 1/125s; b >= 170 gives iso 100, f/8.0, 1/500s.  The cases are exhaustive
\* and disjoint, and the ISO never increases as b increases.
C9_BrightnessThresholds ==
    (fn_pc = "applied" /\ fn_input.decodable) =>
        LET b == Brightness(fn_input)
            got == Triple(fn_result.value)
            dark == Below(b, 85)
            medium == AtLeast(b, 85) /\ Below(b, 170)
            bright == AtLeast(b, 170)
        IN  /\ ~fn_result.raised
            /\ fn_result.value.avg_brightness = b
            /\ dark => got = <<1600, <<"f/2.8">>, <<"1/60s">>>>
            /\ medium => got = <<400, <<"f/5.6">>, <<"1/125s">>>>
            /\ bright => got = <<100, <<"f/8.0">>, <<"1/500s">>>>
            /\ Cardinality({x \in {"dark", "medium", "bright"} :
                              \/ x = "dark" /\ dark
                              \/ x = "medium" /\ medium
                              \/ x = "bright" /\ bright}) = 1
            /\ \A other \in HeuristicImages :
                  (/\ other.decodable
                   /\ Brightness(other).num * b.den >= b.num * Brightness(other).den) =>
                      rule_based_prediction(other).value.iso <= fn_result.value.iso

\* The heuristic was applied to two pixels whose mean is exactly 85
C9_Witness ==
    /\ fn_pc = "applied"
    /\ fn_input.decodable
    /\ Len(fn_input.pixels) = 2
    /\ Brightness(fn_input).num = 85 * 2
    /\ fn_result.value.iso = 400

\* The categories in the order of the claim
Categories == <<PortraitWords, LandscapeWords, ActionWords, LowLightWords>>

CategorySettings ==
    <<PortraitSettings, LandscapeSettings, ActionSettings, LowLightSettings>>

\* The categories with a keyword that occurs in the prompt, ignoring case
Matching(prompt) ==
    {k \in 1..Len(Categories) :
        \E word \in Categories[k] : Contains(lower(prompt), word)}

\* C10: the keyword advisor picks the first matching category in the order
\* portrait, landscape, action, low light, default, by case-insensitive
\* substring match: "portrait photos in low light" gets the portrait
\* settings iso 400, f/2.8, 1/125s, and a prompt matching none gets iso 400,
\* f/5.6, 1/125s.
C10_FirstMatchingCategory ==
    fn_pc = "applied" =>
        LET matching == Matching(fn_input.prompt)
        IN  /\ matching # {} => fn_result = CategorySettings[Min(matching)]
            /\ 1 \in matching =>
                  Triple(fn_result) = <<400, <<"f/2.8">>, <<"1/125s">>>>
            /\ matching = {} =>
                  Triple(fn_result) = <<400, <<"f/5.6">>, <<"1/125s">>>>
            /\ fn_result.source = "rule-based"

\* The advisor was applied to the prompt of test_api.py, which matches
\* portrait and low light
C10_Witness ==
    /\ fn_pc = "applied"
    /\ fn_input.prompt = LowLightPortrait
    /\ Matching(fn_input.prompt) = {1, 4}
    /\ fn_result.iso = 400
    /\ fn_result.aperture = <<"f/2.8">>

----------------------------------------------------------------------------
(* ml_training/scripts/preprocess.py: normalize_settings.  A DataFrame is  *)
(* a function from column names to columns, a column the sequence of its   *)
(* row values.  Setting values are whole numbers; a normalized value is    *)
(* the exact rational [num, den]; a float that may be NaN is [nan, num].   *)

MaxRows == 2

Max(S) == CHOOSE x \in S : \A y \in S : x >= y

SettingColumns == <<"iso", "aperture", "shutter_speed", "focal_length">>

NaN == [nan |-> TRUE, num |-> 0]

Float(x) == [nan |-> FALSE, num |-> x]

\* Series.min(): NaN on an empty column
ColumnMin(column) ==
    IF Len(column) = 0 THEN NaN
    ELSE Float(Min({column[i] : i \in DOMAIN column}))

\* Series.max(): NaN on an empty column
ColumnMax(column) ==
    IF Len(column) = 0 THEN NaN
    ELSE Float(Max({column[i] : i \in DOMAIN column}))

\* v / max_val in place of the min-max formula
Normalized_by_max(v, min_val, max_val) ==
    [num |-> v * 10 ^ 8, den |-> max_val * 10 ^ 8 + 1]

\* (v - min_val) / (max_val - min_val + 1e-8), numerator and denominator
\* both multiplied by 10^8
Normalized(v, min_val, max_val) ==
    [num |-> (v - min_val) * 10 ^ 8, den |-> (max_val - min_val) * 10 ^ 8 + 1]

NormalizedColumn(column) ==
    [i \in DOMAIN column |->
        Normalized(column[i], ColumnMin(column).num, ColumnMax(column).num)]

\* The DataFrame passed in as it is after the call, the normalized copy and
\* the parameters
normalize_settings(df) ==
    LET present == {SettingColumns[k] : k \in DOMAIN SettingColumns} \cap DOMAIN df
    IN  [df |-> df,
         df_normalized |->
             [column \in DOMAIN df |->
                 IF column \in present THEN NormalizedColumn(df[column])
                 ELSE df[column]],
         norm_params |->
             [column \in present |->
                 [min |-> ColumnMin(df[column]), max |-> ColumnMax(df[column])]]]

\* Kept below 21 so that value * 10^8 stays within TLC's integers
SettingValues == {0, 2, 8}

FrameColumns ==
    {{"image_path"}, {"iso"}, {"image_path", "iso", "aperture"},
     {"shutter_speed", "focal_length"}}

\* DataFrames of 0..MaxRows rows; image_path is not a setting column
DataFrames ==
    UNION {UNION {{[column \in columns |->
                      IF column = "image_path" THEN [i \in 1..n |-> "a.jpg"]
                      ELSE values[column]] :
                   values \in [columns \ {"image_path"} -> [1..n -> SettingValues]]} :
                  columns \in FrameColumns} :
           n \in 0..MaxRows}

NormalizeInit ==
    /\ FnIdle
    /\ fn_input \in DataFrames

ApplyNormalizeSettings ==
    /\ fn_pc = "input"
    /\ fn_pc' = "applied"
    /\ fn_result' = normalize_settings(fn_input)
    /\ fn_input' = fn_result'.df
    /\ UNCHANGED <<advisor, predictor, requests>>

NormalizeNext == ApplyNormalizeSettings

SpecNormalize == NormalizeInit /\ [][NormalizeNext]_vars

\* The setting columns of a DataFrame
Present(df) == {"iso", "aperture", "shutter_speed", "focal_length"} \cap DOMAIN df

\* m is the least (sign = 1) or greatest (sign = -1) value of the column
Extreme(column, m, sign) ==
    /\ \E i \in DOMAIN column : column[i] = m
    /\ \A i \in DOMAIN column : sign * column[i] >= sign * m

\* C11: normalize_settings maps every value of a present setting column to
\* (v - min) / (max - min + 1e-8), which lies in 0..1; the column minimum
\* maps to 0, a constant column maps to all 0, norm_params records the
\* column's min and max, and the input DataFrame is left unchanged.
C11_NormalizedRange ==
    /\ [][fn_pc = "input" /\ fn_pc' = "applied" => fn_input' = fn_input]_vars
    /\ [](fn_pc = "applied" =>
            /\ DOMAIN fn_result.norm_params = Present(fn_input)
            /\ DOMAIN fn_result.df_normalized = DOMAIN fn_input
            /\ \A column \in Present(fn_input) :
                  LET values == fn_input[column]
                      normalized == fn_result.df_normalized[column]
                      params == fn_result.norm_params[column]
                  IN  /\ DOMAIN normalized = DOMAIN values
                      /\ Len(values) > 0 =>
                            /\ ~params.min.nan /\ ~params.max.nan
                            /\ Extreme(values, params.min.num, 1)
                            /\ Extreme(values, params.max.num, -1)
                      /\ \A i \in DOMAIN values :
                            /\ normalized[i].den > 0
                            /\ 0 <= normalized[i].num
                            /\ normalized[i].num <= normalized[i].den
                            /\ normalized[i].num
                                 = (values[i] - params.min.num) * 10 ^ 8
                            /\ normalized[i].den
                                 = (params.max.num - params.min.num) * 10 ^ 8 + 1
                            /\ values[i] = params.min.num => normalized[i].num = 0
                            /\ params.min.num = params.max.num => normalized[i].num = 0)

\* A column with distinct values and a non-zero minimum was normalized
C11_Witness ==
    /\ fn_pc = "applied"
    /\ "iso" \in DOMAIN fn_input /\ "image_path" \in DOMAIN fn_input
    /\ fn_input["iso"] = <<2, 8>>
    /\ fn_result.norm_params["iso"] = [min |-> Float(2), max |-> Float(8)]
    /\ fn_result.df_normalized["iso"][1].num = 0
    /\ fn_result.df_normalized["iso"][2] = [num |-> 6 * 10 ^ 8, den |-> 6 * 10 ^ 8 + 1]

----------------------------------------------------------------------------
(* ml_training/scripts/preprocess.py: split_dataset.  The DataFrame is the *)
(* sequence of its rows, a ratio a whole number of RatioUnit-ths, and the  *)
(* shuffle df.sample(frac=1, random_state) some permutation of the rows.   *)

MaxSplitRows == 4

\* 1.0 in ratio units of 1e-7
RatioUnit == 10 ^ 7

\* 1e-6 in ratio units
SumTolerance == 10

\* A slice bound as Python resolves it against a sequence of length n
SliceIndex(i, n) == IF i < 0 THEN Max({i + n, 0}) ELSE Min({i, n})

\* xs[start:stop]
Slice(xs, start, stop) ==
    SubSeq(xs, SliceIndex(start, Len(xs)) + 1, SliceIndex(stop, Len(xs)))

RatiosMustSum == <<"Ratios must sum to 1.0">>

\* df_shuffled is what df.sample(frac=1, random_state=random_state) returned
split_dataset(df_shuffled, train_ratio, val_ratio, test_ratio) ==
    IF ~(Abs(train_ratio + val_ratio + test_ratio - RatioUnit) < SumTolerance)
    THEN Raise(RatiosMustSum)
    ELSE LET n == Len(df_shuffled)
             train_end == Trunc(n * train_ratio, RatioUnit)
             val_end == train_end + Trunc(n * val_ratio, RatioUnit)
         IN  Return([train_df |-> Slice(df_shuffled, 0, train_end),
                     val_df |-> Slice(df_shuffled, train_end, val_end),
                     test_df |-> Slice(df_shuffled, val_end, n)])

\* The permutations of 1..n: the DataFrame of rows 1..n after the shuffle
Shuffles(n) ==
    {order \in [1..n -> 1..n] : \A i, j \in 1..n : order[i] = order[j] => i = j}

Percent(p) == p * (RatioUnit \div 100)

\* <<train_ratio, val_ratio, test_ratio>>: the defaults, other proportions,
\* sums off by less and by more than 1e-6, and ratios outside 0..1 that sum
\* to 1
SplitRatios ==
    {<<Percent(80), Percent(10), Percent(10)>>,
     <<Percent(70), Percent(15), Percent(15)>>,
     <<Percent(50), Percent(50), 0>>,
     <<Percent(100), 0, 0>>,
     <<Percent(34), Percent(33), Percent(33)>>,
     <<Percent(80), Percent(10), Percent(10) + 5>>,
     <<Percent(80), Percent(10), Percent(10) + 10>>,
     <<Percent(50), Percent(30), Percent(10)>>,
     <<Percent(80), Percent(20), Percent(20)>>,
     <<Percent(100), -Percent(50), Percent(50)>>,
     <<-Percent(50), Percent(100), Percent(50)>>}

SplitInit ==
    /\ FnIdle
    /\ \E n \in 0..MaxSplitRows, ratios \in SplitRatios :
          fn_input \in [df_shuffled : Shuffles(n), train_ratio : {ratios[1]},
                        val_ratio : {ratios[2]}, test_ratio : {ratios[3]}]

ApplySplitDataset ==
    /\ fn_pc = "input"
    /\ fn_pc' = "applied"
    /\ fn_result' = split_dataset(fn_input.df_shuffled, fn_input.train_ratio,
                                  fn_input.val_ratio, fn_input.test_ratio)
    /\ UNCHANGED <<advisor, predictor, requests, fn_input>>

SplitNext == ApplySplitDataset

SpecSplit == SplitInit /\ [][SplitNext]_vars

\* The set of rows of a split part
Rows(part) == {part[i] : i \in DOMAIN part}

\* floor(n * ratio)
FloorShare(n, ratio) == (n * ratio) \div RatioUnit

RatiosSumToOne(input) ==
    Abs(input.train_ratio + input.val_ratio + input.test_ratio - RatioUnit)
        < SumTolerance

\* train, val and test are disjoint, cover the rows, and have the sizes
\* floor(n * train_ratio), floor(n * val_ratio) and the rest
IsPartition(input, parts) ==
    LET n == Len(input.df_shuffled)
        train == Rows(parts.train_df)
        val == Rows(parts.val_df)
        test == Rows(parts.test_df)
    IN  /\ train \cap val = {} /\ train \cap test = {} /\ val \cap test = {}
        /\ train \cup val \cup test = 1..n
        /\ Len(parts.train_df) = FloorShare(n, input.train_ratio)
        /\ Len(parts.val_df) = FloorShare(n, input.val_ratio)
        /\ Len(parts.test_df) = n - Len(parts.train_df) - Len(parts.val_df)

\* C12: when the three ratios sum to 1 within 1e-6, split_dataset returns
\* train, val and test that are pairwise disjoint, together hold exactly the
\* input rows, and have floor(n * train_ratio), floor(n * val_ratio) and the
\* remaining rows; when they do not, it fails with the assertion error.
C12_SplitPartitions ==
    fn_pc = "applied" =>
        IF RatiosSumToOne(fn_input)
        THEN ~fn_result.raised /\ IsPartition(fn_input, fn_result.value)
        ELSE fn_result.raised /\ fn_result.error = RatiosMustSum

\* The same statement for ratios that each lie in 0..1
C12_SplitPartitionsOfProportions ==
    (/\ fn_pc = "applied"
     /\ \A ratio \in {fn_input.train_ratio, fn_input.val_ratio, fn_input.test_ratio} :
           0 <= ratio /\ ratio <= RatioUnit) =>
        IF RatiosSumToOne(fn_input)
        THEN ~fn_result.raised /\ IsPartition(fn_input, fn_result.value)
        ELSE fn_result.raised /\ fn_result.error = RatiosMustSum

----------------------------------------------------------------------------
(* ml_training/scripts/preprocess.py: extract_exif_data,                   *)
(* parse_camera_settings and the loop of create_dataset_from_images.  A    *)
(* float is the exact rational [num, den]; an Optional[Dict] is the record *)
(* [is_none, dict].  The loop keeps its state in fn_result: index counts   *)
(* the image files processed, data is the list of rows, exif_data and      *)
(* settings are those of the last iteration, csv the rows written.         *)

MaxImageFiles == 2

NoneDict == [is_none |-> TRUE, dict |-> <<>>]

SomeDict(d) == [is_none |-> FALSE, dict |-> d]

\* `not d` for an Optional[Dict]
Falsy(d) == d.is_none \/ DOMAIN d.dict = {}

\* The dictionary extract_exif_data returns: undecodable bytes are left out
extract_exif_data(image_path) ==
    LET opened == ImageOpen(image_path)
    IN  IF opened.raised THEN NoneDict
        ELSE LET exif_data == opened.value.exif
                 kept == {id \in DOMAIN exif_data :
                             exif_data[id].kind = "bytes" => exif_data[id].decodes}
             IN  IF DOMAIN exif_data = {} THEN NoneDict
                 ELSE SomeDict([tag \in {TagName(id) : id \in kept} |->
                         LET value == exif_data[CHOOSE id \in kept : TagName(id) = tag]
                         IN  IF value.kind = "bytes" THEN StrV(value.text) ELSE value])

\* float(value): an int, or a text of decimal digits with at most one point
FloatOf(value) ==
    CASE value.kind = "int" -> Return([num |-> value.num, den |-> 1])
      [] value.kind = "tuple" ->
            Raise(<<"float() argument must be a string or a real number, not 'tuple'">>)
      [] OTHER ->
            LET text == value.text
                points == {i \in DOMAIN text : text[i] = "."}
                digits == SelectSeq(text, LAMBDA ch : ch # ".")
            IN  IF Cardinality(points) <= 1 /\ isdigit(digits)
                THEN Return([num |-> int(digits),
                             den |-> IF points = {} THEN 1
                                     ELSE 10 ^ (Len(text) - Max(points))])
                ELSE Raise(<<"could not convert string to float">>)

\* float(v[0]) / float(v[1]) for a tuple, float(v) otherwise
RatioOf(value) ==
    IF value.kind = "tuple"
    THEN IF value.den = 0 THEN Raise(<<"float division by zero">>)
         ELSE Return([num |-> value.num, den |-> value.den])
    ELSE FloatOf(value)

SettingOfTag == [ISOSpeedRatings |-> "iso", FNumber |-> "aperture",
                 ExposureTime |-> "shutter_speed", FocalLength |-> "focal_length"]

RequiredSettings == {"iso", "aperture", "shutter_speed"}

\* The try block of parse_camera_settings
parse_try(exif_data) ==
    LET tags == DOMAIN SettingOfTag \cap DOMAIN exif_data
        parsed == [tag \in tags |->
                      IF tag = "ISOSpeedRatings" THEN FloatOf(exif_data[tag])
                      ELSE RatioOf(exif_data[tag])]
        failed(tag) == tag \in tags /\ parsed[tag].raised
        settings == [k \in {SettingOfTag[tag] : tag \in tags} |->
                        parsed[CHOOSE tag \in tags : SettingOfTag[tag] = k].value]
    IN  CASE failed("ISOSpeedRatings") -> parsed["ISOSpeedRatings"]
          [] failed("FNumber") -> parsed["FNumber"]
          [] failed("ExposureTime") -> parsed["ExposureTime"]
          [] failed("FocalLength") -> parsed["FocalLength"]
          [] OTHER -> IF RequiredSettings \subseteq DOMAIN settings
                      THEN Return(SomeDict(settings))
                      ELSE Return(NoneDict)

\* parse_camera_settings without its except clause
parse_camera_settings_propagates(exif_data) == parse_try(exif_data)

parse_camera_settings(exif_data) ==
    IF parse_try(exif_data).raised THEN Return(NoneDict) ELSE parse_try(exif_data)

ZeroFloat == [num |-> 0, den |-> 1]

\* The row appended for an image
DatasetRow(img_path, settings) ==
    [image_path |-> img_path,
     iso |-> settings["iso"],
     aperture |-> settings["aperture"],
     shutter_speed |-> settings["shutter_speed"],
     focal_length |-> IF "focal_length" \in DOMAIN settings
                      THEN settings["focal_length"] ELSE ZeroFloat]

Photo(exif) == MkImage("JPEG", "RGB", <<White>>, exif)

ExifOf(iso, f_number, exposure_time) ==
    (34855 :> iso) @@ (33437 :> f_number) @@ (33434 :> exposure_time)

\* The files of image_dir: no image, no EXIF, complete EXIF in each value
\* form, each required tag missing, and values that do not convert
DatasetImages ==
    {NotAnImage,
     Photo(<<>>),
     Photo(65000 :> BytesV(<<"\\xff">>, FALSE)),
     Photo(ExifOf(IntV(100), TupleV(28, 10), TupleV(1, 125)) @@ (37386 :> TupleV(50, 1))),
     Photo(ExifOf(IntV(400), IntV(4), StrV(<<"0", ".", "0", "0", "8">>))),
     Photo(ExifOf(BytesV(<<"2", "0", "0">>, TRUE), StrV(<<"5", ".", "6">>), IntV(2))),
     Photo((33437 :> TupleV(28, 10)) @@ (33434 :> TupleV(1, 125))),
     Photo((34855 :> IntV(100)) @@ (33434 :> TupleV(1, 125))),
     Photo((34855 :> IntV(100)) @@ (33437 :> TupleV(28, 10)) @@ (271 :> StrV(<<"Canon">>))),
     Photo(ExifOf(IntV(100), TupleV(28, 0), TupleV(1, 125))),
     Photo(ExifOf(IntV(100), TupleV(28, 10), TupleV(1, 0))),
     Photo(ExifOf(IntV(100), TupleV(28, 10), TupleV(1, 125)) @@ (37386 :> TupleV(50, 0))),
     Photo(ExifOf(TupleV(100, 200), TupleV(28, 10), TupleV(1, 125))),
     Photo(ExifOf(StrV(<<"a", "u", "t", "o">>), IntV(4), IntV(2))),
     Photo(ExifOf(IntV(100), StrV(<<"1", ".", "2", ".", "3">>), IntV(2))),
     Photo((33437 :> TupleV(28, 0)) @@ (33434 :> TupleV(1, 125)))}

DatasetInit ==
    /\ advisor = LLMAdvisor_init("None")
    /\ predictor = SettingsPredictor_init(FALSE, FALSE)
    /\ requests = [c \in Clients |-> Idle]
    /\ fn_pc = "for img_path"
    /\ fn_input \in SeqsUpTo(DatasetImages, MaxImageFiles) \cup {<<>>}
    /\ fn_result = [index |-> 0, data |-> <<>>, exif_data |-> NoneDict,
                    settings |-> NoneDict, csv |-> <<>>]

\* One iteration of the loop over image_files
ProcessImage ==
    /\ fn_pc = "for img_path"
    /\ fn_result.index < Len(fn_input)
    /\ LET img_path == fn_result.index + 1
           exif_data == extract_exif_data(fn_input[img_path])
           settings == parse_camera_settings(exif_data.dict)
           next == [fn_result EXCEPT !.index = img_path, !.exif_data = exif_data,
                                     !.settings = NoneDict]
       IN  CASE Falsy(exif_data) ->
                  fn_result' = next /\ fn_pc' = fn_pc
             [] ~Falsy(exif_data) /\ settings.raised ->
                  fn_result' = next /\ fn_pc' = "raised"
             [] ~Falsy(exif_data) /\ ~settings.raised /\ Falsy(settings.value) ->
                  fn_result' = [next EXCEPT !.settings = settings.value]
                  /\ fn_pc' = fn_pc
             [] OTHER ->
                  fn_result' = [next EXCEPT
                                  !.settings = settings.value,
                                  !.data = Append(@, DatasetRow(img_path,
                                                                settings.value.dict))]
                  /\ fn_pc' = fn_pc
    /\ UNCHANGED <<advisor, predictor, requests, fn_input>>

\* pd.DataFrame(data) and df.to_csv(output_path) after the loop
SaveDataset ==
    /\ fn_pc = "for img_path"
    /\ fn_result.index = Len(fn_input)
    /\ fn_result' = [fn_result EXCEPT !.csv = fn_result.data]
    /\ fn_pc' = "returned"
    /\ UNCHANGED <<advisor, predictor, requests, fn_input>>

DatasetNext == ProcessImage \/ SaveDataset

SpecDataset == DatasetInit /\ [][DatasetNext]_vars

\* An image without EXIF or without one of the three required tags
Incomplete(image) ==
    \/ ~image.decodable
    \/ {34855, 33437, 33434} \ DOMAIN image.exif # {}

\* A value of a settings tag that float() or the division rejects
Unconvertible(tag, value) ==
    IF tag = "ISOSpeedRatings" THEN FloatOf(value).raised ELSE RatioOf(value).raised

\* C13: parse_camera_settings never raises; it returns a dictionary only
\* with iso, aperture and shutter_speed in it, and None when one of the tags
\* ISOSpeedRatings, FNumber, ExposureTime is missing or a value does not
\* convert (a rational with denominator 0 included).  Every row of
\* create_dataset_from_images has iso, aperture and shutter_speed, and an
\* image with no or incomplete EXIF gets no row.
C13_IncompleteExifSkipped ==
    /\ fn_pc # "raised"
    /\ (fn_result.index > 0 /\ ~Falsy(fn_result.exif_data)) =>
          LET exif_data == fn_result.exif_data.dict
              settings == fn_result.settings
              tags == DOMAIN SettingOfTag \cap DOMAIN exif_data
          IN  /\ ~settings.is_none => RequiredSettings \subseteq DOMAIN settings.dict
              /\ {"ISOSpeedRatings", "FNumber", "ExposureTime"} \ DOMAIN exif_data # {}
                    => settings.is_none
              /\ (\E tag \in tags : Unconvertible(tag, exif_data[tag]))
                    => settings.is_none
              /\ (\E tag \in tags : exif_data[tag].kind = "tuple" /\ exif_data[tag].den = 0)
                    => settings.is_none
    /\ \A rows \in {fn_result.data, fn_result.csv} :
          \A r \in DOMAIN rows :
              /\ RequiredSettings \subseteq DOMAIN rows[r]
              /\ \A k \in RequiredSettings : rows[r][k].den # 0
              /\ ~Incomplete(fn_input[rows[r].image_path])
    /\ \A i \in 1..fn_result.index :
          Incomplete(fn_input[i]) =>
              \A r \in DOMAIN fn_result.data : fn_result.data[r].image_path # i
    /\ fn_pc = "returned" => fn_result.csv = fn_result.data

\* The dataset of a complete image and one with a zero denominator was
\* written: one row, the second image skipped
C13_Witness ==
    /\ fn_pc = "returned"
    /\ Len(fn_input) = 2
    /\ fn_input[2] = Photo(ExifOf(IntV(100), TupleV(28, 0), TupleV(1, 125)))
    /\ Len(fn_result.csv) = 1
    /\ fn_result.csv[1].image_path = 1
    /\ fn_result.csv[1].aperture = [num |-> 28, den |-> 10]
    /\ fn_result.settings.is_none

----------------------------------------------------------------------------
(* ml_training/scripts/train_model.py: the training loop of train_model.   *)
(* fn_input is the call (num_epochs and the number of batches of the two   *)
(* loaders), fn_pc the statement about to run, fn_result the state: epoch, *)
(* the model weights (the number of train_epoch calls that shaped them),   *)
(* val_loss, best_val_loss, the scheduler, the two files, and log, the     *)
(* calls made so far with the epoch and, for validate, the loss returned.  *)
(* A loss is a float: finite (a whole number of units), +inf or NaN.       *)

MaxEpochs == 3

Finite(x) == [kind |-> "finite", num |-> x]

Infinity == [kind |-> "inf", num |-> 0]

NotANumber == [kind |-> "nan", num |-> 0]

\* a <= b on floats, NaN comparing false
LessOrEqual(a, b) ==
    CASE a.kind = "nan" \/ b.kind = "nan" -> FALSE
      [] b.kind = "inf" -> TRUE
      [] a.kind = "inf" -> FALSE
      [] OTHER -> a.num <= b.num

\* a < b on floats, NaN comparing false
Less(a, b) ==
    CASE a.kind = "nan" \/ b.kind = "nan" -> FALSE
      [] a.kind = "inf" -> FALSE
      [] b.kind = "inf" -> TRUE
      [] OTHER -> a.num < b.num

\* What validate can return
Losses == {Finite(1), Finite(2), Finite(3), Infinity, NotANumber}

NoFile == [exists |-> FALSE, epoch |-> 0, model_state_dict |-> 0, val_loss |-> Infinity]

Logged(call, epoch, loss) == [call |-> call, epoch |-> epoch, loss |-> loss]

\* The statement after the body of epoch `epoch`
NextEpoch(epoch, num_epochs) ==
    IF epoch + 1 < num_epochs THEN "train_epoch" ELSE "save final"

TrainInit ==
    /\ advisor = LLMAdvisor_init("None")
    /\ predictor = SettingsPredictor_init(FALSE, FALSE)
    /\ requests = [c \in Clients |-> Idle]
    /\ fn_input \in [num_epochs : 0..MaxEpochs, train_batches : 0..1, val_batches : 0..1]
    /\ fn_pc = IF fn_input.num_epochs > 0 THEN "train_epoch" ELSE "save final"
    /\ fn_result = [epoch |-> 0, weights |-> 0, val_loss |-> Infinity,
                    best_val_loss |-> Infinity, scheduler |-> [last_epoch |-> 0],
                    best_model_pth |-> NoFile, final_model_pth |-> NoFile,
                    log |-> <<>>]

\* train_loss = train_epoch(...): the weights change; total_loss / len(dataloader)
\* raises on an empty loader
TrainEpoch ==
    /\ fn_pc = "train_epoch"
    /\ IF fn_input.train_batches = 0
       THEN fn_pc' = "raised" /\ fn_result' = fn_result
       ELSE /\ fn_pc' = "validate"
            /\ fn_result' = [fn_result EXCEPT
                               !.weights = @ + 1,
                               !.log = Append(@, Logged("train_epoch", fn_result.epoch,
                                                        Infinity))]
    /\ UNCHANGED <<advisor, predictor, requests, fn_input>>

\* val_loss = validate(...)
Validate ==
    /\ fn_pc = "validate"
    /\ IF fn_input.val_batches = 0
       THEN fn_pc' = "raised" /\ fn_result' = fn_result
       ELSE /\ fn_pc' = "scheduler.step"
            /\ \E val_loss \in Losses :
                  fn_result' = [fn_result EXCEPT
                                  !.val_loss = val_loss,
                                  !.log = Append(@, Logged("validate", fn_result.epoch,
                                                           val_loss))]
    /\ UNCHANGED <<advisor, predictor, requests, fn_input>>

\* scheduler.step(val_loss)
SchedulerStep ==
    /\ fn_pc = "scheduler.step"
    /\ fn_pc' = "save best"
    /\ fn_result' = [fn_result EXCEPT
                       !.scheduler.last_epoch = @ + 1,
                       !.log = Append(@, Logged("scheduler.step", fn_result.epoch,
                                                fn_result.val_loss))]
    /\ UNCHANGED <<advisor, predictor, requests, fn_input>>

\* val_loss <= best_val_loss in place of the strict comparison
Improved_or_equal(val_loss, best_val_loss) == LessOrEqual(val_loss, best_val_loss)

\* The test of the best-model save: val_loss < best_val_loss
Improved(val_loss, best_val_loss) == Less(val_loss, best_val_loss)

\* if val_loss < best_val_loss: ... torch.save(..., "best_model.pth"); then the
\* next epoch
SaveBest ==
    /\ fn_pc = "save best"
    /\ fn_pc' = NextEpoch(fn_result.epoch, fn_input.num_epochs)
    /\ IF Improved(fn_result.val_loss, fn_result.best_val_loss)
       THEN fn_result' = [fn_result EXCEPT
                            !.best_val_loss = fn_result.val_loss,
                            !.best_model_pth =
                                [exists |-> TRUE, epoch |-> fn_result.epoch,
                                 model_state_dict |-> fn_result.weights,
                                 val_loss |-> fn_result.val_loss],
                            !.log = Append(@, Logged("save best", fn_result.epoch,
                                                     fn_result.val_loss)),
                            !.epoch = @ + 1]
       ELSE fn_result' = [fn_result EXCEPT !.epoch = @ + 1]
    /\ UNCHANGED <<advisor, predictor, requests, fn_input>>

\* The final save left out when the loop body never ran
SaveFinal_unless_no_epochs ==
    /\ fn_pc = "save final"
    /\ fn_pc' = "returned"
    /\ IF fn_input.num_epochs = 0
       THEN fn_result' = fn_result
       ELSE fn_result' = [fn_result EXCEPT
                       !.final_model_pth =
                           [NoFile EXCEPT !.exists = TRUE,
                                          !.model_state_dict = fn_result.weights],
                       !.log = Append(@, Logged("save final", fn_result.epoch, Infinity))]
    /\ UNCHANGED <<advisor, predictor, requests, fn_input>>

\* torch.save(model.state_dict(), "final_model.pth") after the loop
SaveFinal ==
    /\ fn_pc = "save final"
    /\ fn_pc' = "returned"
    /\ fn_result' = [fn_result EXCEPT
                       !.final_model_pth =
                           [NoFile EXCEPT !.exists = TRUE,
                                          !.model_state_dict = fn_result.weights],
                       !.log = Append(@, Logged("save final", fn_result.epoch, Infinity))]
    /\ UNCHANGED <<advisor, predictor, requests, fn_input>>

TrainNext == TrainEpoch \/ Validate \/ SchedulerStep \/ SaveBest \/ SaveFinal

SpecTrain == TrainInit /\ [][TrainNext]_vars

\* The calls of one kind in the log
Calls(call) == SelectSeq(fn_result.log, LAMBDA entry : entry.call = call)

\* The validation loss of each completed epoch: EpochLoss[e + 1] is epoch e's
EpochLoss == SubSeq([i \in DOMAIN Calls("validate") |-> Calls("validate")[i].loss],
                    1, fn_result.epoch)

\* The epochs in which best_model.pth was written
SavedEpochs == {Calls("save best")[i].epoch : i \in DOMAIN Calls("save best")}

\* best_model.pth holds the epoch index and the weights of epoch e
CheckpointOf(e) ==
    fn_result.best_model_pth =
        [exists |-> TRUE, epoch |-> e, model_state_dict |-> e + 1,
         val_loss |-> EpochLoss[e + 1]]

BestNeverIncreases ==
    [][~Less(fn_result.best_val_loss, fn_result.best_val_loss')]_vars

\* C14 as stated: best_val_loss never increases and after each epoch is the
\* minimum validation loss so far; best_model.pth is written in exactly the
\* epochs whose validation loss is strictly lower than every earlier
\* epoch's, and holds the weights and the index of the first epoch that
\* reached the current minimum.
C14_BestIsMinimumOfAll ==
    /\ BestNeverIncreases
    /\ [](LET done == 0..(fn_result.epoch - 1)
          IN  /\ done # {} =>
                    /\ \E e \in done : EpochLoss[e + 1] = fn_result.best_val_loss
                    /\ \A e \in done : LessOrEqual(fn_result.best_val_loss, EpochLoss[e + 1])
                    /\ \E e \in done :
                          /\ EpochLoss[e + 1] = fn_result.best_val_loss
                          /\ \A d \in done : d < e => EpochLoss[d + 1] # EpochLoss[e + 1]
                          /\ CheckpointOf(e)
              /\ SavedEpochs =
                    {e \in done : \A d \in done :
                        d < e => Less(EpochLoss[e + 1], EpochLoss[d + 1])})

\* C14, amended: the same with the minimum taken over the finite validation
\* losses.  best_val_loss never increases and after each epoch is the least
\* finite validation loss so far (+inf while there is none); best_model.pth
\* is written in exactly the epochs whose validation loss is finite and
\* strictly lower than every earlier finite one, and holds the weights and
\* the index of the first epoch that reached the current minimum.
C14_BestIsMinimumOfFinite ==
    /\ BestNeverIncreases
    /\ [](LET done == 0..(fn_result.epoch - 1)
              finite == {e \in done : EpochLoss[e + 1].kind = "finite"}
          IN  /\ finite = {} =>
                    /\ fn_result.best_val_loss = Infinity
                    /\ fn_result.best_model_pth = NoFile
              /\ finite # {} =>
                    /\ \A e \in finite : LessOrEqual(fn_result.best_val_loss, EpochLoss[e + 1])
                    /\ \E e \in finite :
                          /\ EpochLoss[e + 1] = fn_result.best_val_loss
                          /\ \A d \in finite : d < e => EpochLoss[d + 1] # EpochLoss[e + 1]
                          /\ CheckpointOf(e)
              /\ SavedEpochs =
                    {e \in finite : \A d \in finite :
                        d < e => Less(EpochLoss[e + 1], EpochLoss[d + 1])})

\* Three epochs with validation losses NaN, 2, 2: only the second epoch wrote
\* the checkpoint
C14_Witness ==
    /\ fn_pc = "returned"
    /\ EpochLoss = <<NotANumber, Finite(2), Finite(2)>>
    /\ SavedEpochs = {1}
    /\ fn_result.best_val_loss = Finite(2)
    /\ fn_result.best_model_pth.epoch = 1
    /\ fn_result.best_model_pth.model_state_dict = 2
    /\ fn_result.weights = 3

\* The place of a call in the body of an epoch; the final save comes last
Rank(call) ==
    CASE call = "train_epoch" -> 1
      [] call = "validate" -> 2
      [] call = "scheduler.step" -> 3
      [] call = "save best" -> 4
      [] OTHER -> 5

\* C15: in every epoch the calls are made in the order train, validate,
\* scheduler step, best-checkpoint save; final_model.pth is written exactly
\* once, after the last epoch, also with num_epochs = 0 and also when no
\* epoch improved the best loss; and when an epoch had a finite validation
\* loss, best_model.pth exists when training completes.
C15_EpochOrderAndFinalSave ==
    LET log == fn_result.log
        final == Calls("save final")
    IN  /\ \A i, j \in DOMAIN log :
              i < j => \/ log[i].epoch < log[j].epoch
                       \/ /\ log[i].epoch = log[j].epoch
                          /\ Rank(log[i].call) < Rank(log[j].call)
        /\ \A e \in 0..(fn_result.epoch - 1) :
              \A call \in {"train_epoch", "validate", "scheduler.step"} :
                  \E i \in DOMAIN log : log[i].call = call /\ log[i].epoch = e
        /\ \A i \in DOMAIN log :
              log[i].call = "save best" =>
                  /\ i > 3
                  /\ log[i - 1].call = "scheduler.step"
                  /\ log[i - 2].call = "validate"
                  /\ log[i - 3].call = "train_epoch"
        /\ Len(final) = IF fn_pc = "returned" THEN 1 ELSE 0
        /\ fn_result.final_model_pth.exists <=> fn_pc = "returned"
        /\ fn_pc = "returned" =>
              /\ log[Len(log)].call = "save final"
              /\ fn_result.epoch = fn_input.num_epochs
              /\ fn_result.final_model_pth.model_state_dict = fn_input.num_epochs
              /\ (\E e \in 1..fn_result.epoch : EpochLoss[e].kind = "finite")
                    => fn_result.best_model_pth.exists

\* Training completed after two epochs that never improved the best loss:
\* final_model.pth is there, best_model.pth is not
C15_Witness ==
    /\ fn_pc = "returned"
    /\ fn_input.num_epochs = 2
    /\ EpochLoss = <<NotANumber, Infinity>>
    /\ fn_result.final_model_pth.exists
    /\ ~fn_result.best_model_pth.exists
    /\ Len(fn_result.log) = 7

----------------------------------------------------------------------------
(* ml_training/scripts/convert_model.py run as a script.  fn_input is the  *)
(* command line and the environment: --format, whether the .onnx file is   *)
(* already in output_dir, whether torch.load / torch.onnx.export succeed,  *)
(* what the onnx package does (missing, check fails, check passes) and     *)
(* what coremltools does (missing, convert raises, converts).  fn_pc is    *)
(* the statement about to run; fn_result holds the two output files, the   *)
(* calls made so far and the lines printed.                                *)

Formats == {"all", "onnx", "coreml"}

ConvertRuns ==
    [format : Formats, onnx_on_disk : BOOLEAN, export_succeeds : BOOLEAN,
     onnx_package : {"missing", "check fails", "check passes"},
     coremltools : {"missing", "convert raises", "converts"}]

ConvertInit ==
    /\ advisor = LLMAdvisor_init("None")
    /\ predictor = SettingsPredictor_init(FALSE, FALSE)
    /\ requests = [c \in Clients |-> Idle]
    /\ fn_input \in ConvertRuns
    /\ fn_pc = "__main__"
    /\ fn_result = [onnx_file |-> IF fn_input.onnx_on_disk THEN "earlier export"
                                  ELSE "absent",
                    mlmodel_file |-> "absent", calls |-> <<>>, stdout |-> <<>>,
                    error |-> "None"]

Called(call) == [fn_result EXCEPT !.calls = Append(@, call)]

Printed(state, line) == [state EXCEPT !.stdout = Append(@, line)]

\* --format coreml without the test for an existing ONNX file
Main_coreml_without_onnx ==
    /\ fn_pc = "__main__"
    /\ fn_pc' = CASE fn_input.format = "all" -> "convert_pytorch_to_all"
                  [] fn_input.format = "onnx" -> "convert_to_onnx"
                  [] OTHER -> "convert_to_coreml"
    /\ fn_result' = fn_result
    /\ UNCHANGED <<advisor, predictor, requests, fn_input>>

\* The if / elif on args.format, with the onnx_path.exists() test of coreml
Main ==
    /\ fn_pc = "__main__"
    /\ CASE fn_input.format = "all" ->
              fn_pc' = "convert_pytorch_to_all" /\ fn_result' = fn_result
         [] fn_input.format = "onnx" ->
              fn_pc' = "convert_to_onnx" /\ fn_result' = fn_result
         [] OTHER ->
              IF fn_result.onnx_file = "absent"
              THEN /\ fn_pc' = "convert_to_onnx"
                   /\ fn_result' = Printed(fn_result,
                                           "ONNX model not found, creating it first...")
              ELSE fn_pc' = "convert_to_coreml" /\ fn_result' = fn_result
    /\ UNCHANGED <<advisor, predictor, requests, fn_input>>

\* convert_pytorch_to_all up to its call of convert_to_onnx
MakeOutputDir ==
    /\ fn_pc = "convert_pytorch_to_all"
    /\ fn_pc' = "convert_to_onnx"
    /\ fn_result' = fn_result
    /\ UNCHANGED <<advisor, predictor, requests, fn_input>>

\* convert_to_onnx up to "ONNX export complete!": torch.load and
\* torch.onnx.export, which may raise
ExportOnnx ==
    /\ fn_pc = "convert_to_onnx"
    /\ IF fn_input.export_succeeds
       THEN /\ fn_pc' = "verify"
            /\ fn_result' = Printed([Called("convert_to_onnx") EXCEPT
                                        !.onnx_file = "exported"],
                                    "ONNX export complete!")
       ELSE /\ fn_pc' = "raised"
            /\ fn_result' = [Called("convert_to_onnx") EXCEPT !.error = "export"]
    /\ UNCHANGED <<advisor, predictor, requests, fn_input>>

\* The statement after convert_to_onnx returns
AfterOnnx(format) == IF format = "onnx" THEN "returned" ELSE "convert_to_coreml"

\* The verification with both except clauses removed
VerifyOnnx_propagates ==
    /\ fn_pc = "verify"
    /\ CASE fn_input.onnx_package = "check passes" ->
              /\ fn_pc' = AfterOnnx(fn_input.format)
              /\ fn_result' = Printed(fn_result, "ONNX model verification passed!")
         [] OTHER ->
              /\ fn_pc' = "raised"
              /\ fn_result' = [fn_result EXCEPT !.error = "verify"]
    /\ UNCHANGED <<advisor, predictor, requests, fn_input>>

\* The try / except at the end of convert_to_onnx
VerifyOnnx ==
    /\ fn_pc = "verify"
    /\ fn_pc' = AfterOnnx(fn_input.format)
    /\ fn_result' =
          Printed(fn_result,
                  CASE fn_input.onnx_package = "check passes" ->
                         "ONNX model verification passed!"
                    [] fn_input.onnx_package = "missing" ->
                         "Warning: ONNX not installed, skipping verification"
                    [] OTHER -> "ONNX verification failed")
    /\ UNCHANGED <<advisor, predictor, requests, fn_input>>

\* The statement after convert_to_coreml returns
AfterCoreml(format) == IF format = "all" THEN "summary" ELSE "returned"

\* convert_to_coreml
ConvertToCoreml ==
    /\ fn_pc = "convert_to_coreml"
    /\ CASE fn_input.coremltools = "missing" ->
              /\ fn_pc' = AfterCoreml(fn_input.format)
              /\ fn_result' = Printed(Printed(Called("convert_to_coreml"),
                                              "Error: coremltools not installed"),
                                      "Install with: pip install coremltools")
         [] fn_input.coremltools = "convert raises" ->
              /\ fn_pc' = "raised"
              /\ fn_result' = [Called("convert_to_coreml") EXCEPT !.error = "convert"]
         [] OTHER ->
              /\ fn_pc' = AfterCoreml(fn_input.format)
              /\ fn_result' = Printed([Called("convert_to_coreml") EXCEPT
                                          !.mlmodel_file = "saved"],
                                      "CoreML conversion complete!")
    /\ UNCHANGED <<advisor, predictor, requests, fn_input>>

\* The summary at the end of convert_pytorch_to_all
PrintSummary ==
    /\ fn_pc = "summary"
    /\ fn_pc' = "returned"
    /\ fn_result' = Printed(fn_result, "Conversion Summary:")
    /\ UNCHANGED <<advisor, predictor, requests, fn_input>>

ConvertNext ==
    Main \/ MakeOutputDir \/ ExportOnnx \/ VerifyOnnx \/ ConvertToCoreml \/ PrintSummary

SpecConvert == ConvertInit /\ [][ConvertNext]_vars

\* The position of the first call of that name, 0 if there is none
FirstCall(call) ==
    IF \E i \in DOMAIN fn_result.calls : fn_result.calls[i] = call
    THEN Min({i \in DOMAIN fn_result.calls : fn_result.calls[i] = call})
    ELSE 0

\* C16: the CoreML conversion is never attempted without an ONNX file at the
\* expected path: convert_pytorch_to_all runs convert_to_onnx before
\* convert_to_coreml, and --format coreml generates the ONNX model first when
\* it is missing and reuses it unchanged when it is present.
C16_OnnxBeforeCoreml ==
    /\ fn_pc = "convert_to_coreml" => fn_result.onnx_file # "absent"
    /\ FirstCall("convert_to_coreml") > 0 =>
          /\ fn_result.onnx_file # "absent"
          /\ fn_input.format # "onnx"
          /\ fn_input.format = "all" =>
                /\ FirstCall("convert_to_onnx") > 0
                /\ FirstCall("convert_to_onnx") < FirstCall("convert_to_coreml")
          /\ (fn_input.format = "coreml" /\ ~fn_input.onnx_on_disk) =>
                /\ FirstCall("convert_to_onnx") > 0
                /\ FirstCall("convert_to_onnx") < FirstCall("convert_to_coreml")
                /\ fn_result.onnx_file = "exported"
    /\ (fn_input.format = "coreml" /\ fn_input.onnx_on_disk) =>
          /\ FirstCall("convert_to_onnx") = 0
          /\ fn_result.onnx_file = "earlier export"

\* --format coreml with no ONNX file on disk: the export ran first and the
\* CoreML model was saved
C16_Witness ==
    /\ fn_pc = "returned"
    /\ fn_input.format = "coreml"
    /\ ~fn_input.onnx_on_disk
    /\ fn_result.calls = <<"convert_to_onnx", "convert_to_coreml">>
    /\ fn_result.mlmodel_file = "saved"

\* convert_to_onnx returned: the verification is over
Verified ==
    /\ fn_pc \notin {"__main__", "convert_pytorch_to_all", "convert_to_onnx", "verify"}
    /\ FirstCall("convert_to_onnx") > 0
    /\ fn_result.error # "export"

SummaryPrinted ==
    /\ Len(fn_result.stdout) > 0
    /\ fn_result.stdout[Len(fn_result.stdout)] = "Conversion Summary:"

\* Neither a missing coremltools nor the verification raises or touches the
\* output files
ImportAndVerifyTolerated ==
    /\ fn_result.error \in {"None", "export", "convert"}
    /\ fn_pc = "raised" <=> fn_result.error # "None"
    /\ fn_result.error = "convert" => fn_input.coremltools = "convert raises"
    /\ fn_result.error = "export" => ~fn_input.export_succeeds
    /\ fn_input.coremltools = "missing" => fn_result.mlmodel_file = "absent"
    /\ Verified => fn_result.onnx_file = "exported"
    /\ (fn_input.format = "all" /\ fn_pc = "returned") => SummaryPrinted

----------------------------------------------------------------------------
(* The shape of the result of LLMAdvisor.suggest.                          *)

\* `prefix` occurs in the text directly followed by a digit
DigitAfter(text, prefix) ==
    \E i \in 1..(Len(text) - Len(prefix)) :
        /\ SubSeq(text, i, i + Len(prefix) - 1) = prefix
        /\ IsDigit(text[i + Len(prefix)])

\* The reply of the LLM as the client returned it
ReplyOf(input) ==
    IF input.llm.echo THEN user_message(input.prompt, input.current_settings)
    ELSE input.llm.content

\* C18: the result of suggest always has a source, "llm" or "rule-based",
\* and an explanation.  On the LLM path the source is "llm", the explanation
\* is the reply text unmodified and the other keys are among iso, aperture
\* and shutter_speed, each present only if it could be parsed from the
\* reply; on the rule-based path iso, aperture and shutter_speed are all
\* present.
C18_ResultShape ==
    fn_pc = "applied" =>
        /\ ~fn_result.raised
        /\ LET result == fn_result.value
               llm_path == fn_input.self.client # "None" /\ ~LLMFails(fn_input.llm)
               reply == ReplyOf(fn_input)
           IN  /\ {"source", "explanation"} \subseteq DOMAIN result
               /\ result["source"] \in {"llm", "rule-based"}
               /\ result["source"] = "llm" <=> llm_path
               /\ llm_path =>
                     /\ result["explanation"] = reply
                     /\ DOMAIN result \ {"source", "explanation"}
                           \subseteq {"iso", "aperture", "shutter_speed"}
                     /\ "iso" \in DOMAIN result =>
                           /\ Contains(lower(reply), <<"i", "s", "o">>)
                           /\ result["iso"] \in IsoValues
                           /\ \E w \in DOMAIN split(reply) :
                                 /\ isdigit(split(reply)[w])
                                 /\ int(split(reply)[w]) = result["iso"]
                     /\ "aperture" \in DOMAIN result =>
                           /\ DigitAfter(lower(reply), <<"f", "/">>)
                           /\ SubSeq(result["aperture"], 1, 1) = <<"f/">>
                           /\ Len(result["aperture"]) > 1
                     /\ "shutter_speed" \in DOMAIN result =>
                           /\ DigitAfter(reply, <<"1", "/">>)
                           /\ SubSeq(result["shutter_speed"], 1, 1) = <<"1/">>
                           /\ Len(result["shutter_speed"]) > 2
               /\ ~llm_path =>
                     DOMAIN result = {"iso", "aperture", "shutter_speed",
                                      "source", "explanation"}

\* The LLM answered "Aperture F/11. ISO 100": aperture and iso were parsed,
\* there is no shutter_speed
C18_Witness ==
    /\ fn_pc = "applied"
    /\ fn_input.self.client = "OpenAI"
    /\ ~LLMFails(fn_input.llm) /\ ~fn_input.llm.echo
    /\ fn_result.value["source"] = "llm"
    /\ fn_result.value["explanation"] = fn_input.llm.content
    /\ DOMAIN fn_result.value = {"iso", "aperture", "source", "explanation"}
    /\ fn_result.value["iso"] = 100

\* C19: the result of _rule_based_suggestions depends only on the prompt:
\* two calls with the same prompt and different current_settings, None
\* included, return equal results, and the call does not modify
\* current_settings.
C19_IndependentOfCurrentSettings ==
    /\ [][(fn_pc = "input" /\ fn_pc' = "applied") =>
            fn_input'.current_settings = fn_input.current_settings]_vars
    /\ [](fn_pc = "applied" =>
            \A other \in ServerSettings :
                rule_based_suggestions(fn_input.prompt, other) = fn_result)

\* The advisor was applied to a landscape prompt with current settings given;
\* the call with None returns the same landscape settings
C19_Witness ==
    /\ fn_pc = "applied"
    /\ Truthy(fn_input.current_settings)
    /\ fn_result = LandscapeSettings
    /\ rule_based_suggestions(fn_input.prompt, NoneSettings) = LandscapeSettings
    /\ \E other \in ServerSettings : other # fn_input.current_settings

====
